---- MODULE Spec2Model ----
(***************************************************************************)
(* A model of press: the chunker (file_processing/reader.rs), the patch    *)
(* applier (file_processing/xml_parser.rs, XmlParser::process_file) and    *)
(* the rollback manager (file_processing/writer.rs).                       *)
(*                                                                         *)
(* Text is a sequence of one-character strings.                            *)
(***************************************************************************)
EXTENDS Integers, Sequences, FiniteSets, TLC

\* ------------------------------------------------------------------ bounds
MaxContentLen == 4
MaxChunkSize == 2
MaxSupplied == 2

\* ------------------------------------------------------------- characters
NL == "\n"
CR == "\r"
Alphabet == {"a", "b", NL}

Min(a, b) == IF a < b THEN a ELSE b

\* All sequences over S of length at most n.
SeqsUpTo(S, n) == UNION {[1..k -> S] : k \in 0..n}

\* ------------------------------------------------------ usize arithmetic
\* `a - b` on usize: the value and whether it underflowed.  The wrapped
\* value 2^64 - k is written -k.
UsizeSub(a, b) == [val |-> a - b, ovf |-> a < b]

\* ------------------------------------------------------------ str::lines
\* The position in `among` nearest the middle of 1..n from above, or the
\* last one below it.
NearMiddle(among, n) ==
    LET above == {i \in among : 2 * i >= n}
    IN  IF above # {}
        THEN CHOOSE i \in above : \A j \in above : i <= j
        ELSE CHOOSE i \in among : \A j \in among : j <= i

\* str::split_inclusive('\n'): every piece but possibly the last ends in NL.
\* The text is cut after one of its "\n" and both sides are split alike,
\* which yields the pieces from left to right.
RECURSIVE SplitInclusive(_)
SplitInclusive(s) ==
    IF s = <<>> THEN <<>>
    ELSE LET cuts == {i \in 1..(Len(s) - 1) : s[i] = NL}
         IN  IF cuts = {} THEN <<s>>
             ELSE LET i == NearMiddle(cuts, Len(s))
                  IN  SplitInclusive(SubSeq(s, 1, i))
                      \o SplitInclusive(SubSeq(s, i + 1, Len(s)))

\* The map str::lines applies to a piece: strip one "\n", then one "\r".
LinesMap(line) ==
    IF line # <<>> /\ line[Len(line)] = NL
    THEN LET l1 == SubSeq(line, 1, Len(line) - 1)
         IN  IF l1 # <<>> /\ l1[Len(l1)] = CR
             THEN SubSeq(l1, 1, Len(l1) - 1)
             ELSE l1
    ELSE line

\* contents.lines().collect()
Lines(contents) ==
    LET pieces == SplitInclusive(contents)
    IN  [i \in 1..Len(pieces) |-> LinesMap(pieces[i])]

\* slice::chunks(chunk_size) for chunk_size # 0: consecutive groups of
\* chunk_size elements, the last one shorter when the length is no multiple.
RECURSIVE Chunks(_, _)
Chunks(lines, size) ==
    IF lines = <<>> THEN <<>>
    ELSE IF Len(lines) <= size THEN <<lines>>
    ELSE <<SubSeq(lines, 1, size)>> \o Chunks(SubSeq(lines, size + 1, Len(lines)), size)

\* [T]::join(sep) on a sequence of texts.
RECURSIVE Join(_, _)
Join(texts, sep) ==
    IF texts = <<>> THEN <<>>
    ELSE IF Len(texts) = 1 THEN texts[1]
    ELSE LET half == Len(texts) \div 2
         IN  Join(SubSeq(texts, 1, half), sep) \o <<sep>>
             \o Join(SubSeq(texts, half + 1, Len(texts)), sep)

\* content.replace("]]>", "]]]]><![CDATA[>")
\* (the text up to the first "]]>" is kept, the marker replaced, and the
\* rest treated alike)
CdataEndAt(content, i) ==
    /\ i + 2 <= Len(content)
    /\ content[i] = "]" /\ content[i + 1] = "]" /\ content[i + 2] = ">"

RECURSIVE escape_cdata(_)
escape_cdata(content) ==
    IF \E i \in 1..Len(content) : CdataEndAt(content, i)
    THEN LET i == CHOOSE k \in 1..Len(content) :
                    CdataEndAt(content, k) /\ \A j \in 1..(k - 1) : ~CdataEndAt(content, j)
         IN  SubSeq(content, 1, i - 1)
             \o <<"]", "]", "]", "]", ">", "<", "!", "[", "C", "D", "A", "T", "A", "[", ">">>
             \o escape_cdata(SubSeq(content, i + 3, Len(content)))
    ELSE content

\* --------------------------------------------------------------- Chunker
\* A Chunker that announces lines.len() / chunk_size parts, rounded down.
read_and_format_file_floor(file_contents, size, checks) ==
    LET lines == Lines(file_contents)
    IN  IF size = 0
        THEN [panic |-> TRUE, num_parts |-> 0, parts |-> <<>>]
        ELSE LET groups == Chunks(lines, size)
             IN  [panic |-> FALSE,
                  num_parts |-> Len(lines) \div size,
                  parts |-> [i \in 1..Len(groups) |->
                               [part_id |-> (i - 1) + 1,
                                content |-> Join(groups[i], NL),
                                cdata |-> escape_cdata(Join(groups[i], NL))]]]

\* read_and_format_file on the text of a file that passed the size check:
\* the announced part count and the part elements, or a panic.  With
\* overflow checks (a debug build) an overflowing + or - panics, without
\* them (a release build) it wraps; a division by zero and chunks(0) panic
\* in both.
read_and_format_file(file_contents, size, checks) ==
    LET lines == Lines(file_contents)
        dec == UsizeSub(Len(lines) + size, 1)
    IN  IF (checks /\ dec.ovf) \/ size = 0
        THEN [panic |-> TRUE, num_parts |-> 0, parts |-> <<>>]
        ELSE LET groups == Chunks(lines, size)
             IN  [panic |-> FALSE,
                  num_parts |-> dec.val \div size,
                  parts |-> [i \in 1..Len(groups) |->
                               [part_id |-> (i - 1) + 1,
                                content |-> Join(groups[i], NL),
                                cdata |-> escape_cdata(Join(groups[i], NL))]]]

\* --------------------------------------------------------------- Applier
\* A re-chunking that splits the text at "\n" without str::lines' handling
\* of the line ends: a final "\n" opens one more, empty, line and a "\r"
\* before a "\n" stays.
RECURSIVE SplitNL(_)
SplitNL(s) ==
    LET cuts == {i \in 1..Len(s) : s[i] = NL}
    IN  IF cuts = {} THEN <<s>>
        ELSE LET i == NearMiddle(cuts, Len(s))
             IN  SplitNL(SubSeq(s, 1, i - 1)) \o SplitNL(SubSeq(s, i + 1, Len(s)))

rechunk_split(original_content, size) ==
    IF size = 0
    THEN <<original_content>>
    ELSE LET groups == Chunks(SplitNL(original_content), size)
         IN  [i \in 1..Len(groups) |-> Join(groups[i], NL)]

\* process_file, the file end branch: the parts of the file read from disk.
rechunk(original_content, size) ==
    IF size = 0
    THEN <<original_content>>
    ELSE LET groups == Chunks(Lines(original_content), size)
         IN  [i \in 1..Len(groups) |-> Join(groups[i], NL)]

\* A range test that forgets id 0.
slot_in_range_no_lower(part_id, len) == part_id <= len

\* `part_id > 0 && part_id <= parts.len()`
slot_in_range(part_id, len) == part_id > 0 /\ part_id <= len

\* A slot index that takes the part id for the index.
slot_index_from_zero(part_id) == part_id

\* `part_id - 1`, the index of the slot of a part id.
slot_index(part_id) == UsizeSub(part_id, 1).val

\* `parts[index] = content` on a Vec, index counted from 0: a panic when
\* the index is out of bounds.
VecSet(vec, index, content) ==
    IF vec.panic THEN vec
    ELSE IF index >= 0 /\ index < Len(vec.parts)
    THEN [vec EXCEPT !.parts[index + 1] = content]
    ELSE [vec EXCEPT !.panic = TRUE]

\* An overlay in which the first occurrence of a part id keeps the slot.
RECURSIVE overlay_first_wins(_, _)
overlay_first_wins(vec, parts_list) ==
    IF parts_list = <<>> THEN vec
    ELSE LET p == Head(parts_list)
             later == overlay_first_wins(vec, Tail(parts_list))
         IN  IF slot_in_range(p.part_id, Len(later.parts))
             THEN VecSet(later, slot_index(p.part_id), p.content)
             ELSE later

\* The loop over current_parts.drain(..): each supplied part in order.
RECURSIVE overlay(_, _)
overlay(vec, parts_list) ==
    IF parts_list = <<>> THEN vec
    ELSE LET p == Head(parts_list)
         IN  overlay(IF slot_in_range(p.part_id, Len(vec.parts))
                     THEN VecSet(vec, slot_index(p.part_id), p.content)
                     ELSE vec,
                     Tail(parts_list))

\* The merge of one updated file: re-chunk, overlay, join.
merge_file(original_content, size, parts_list) ==
    LET vec == overlay([panic |-> FALSE, parts |-> rechunk(original_content, size)],
                       parts_list)
    IN  [panic |-> vec.panic,
         parts |-> vec.parts,
         new_content |-> Join(vec.parts, NL)]

\* ------------------------------------------------- inputs of the functions
Bodies == {<<"X">>, <<"Y">>}

\* The chunk sizes the functions are given.
ChunkSizes == 0..MaxChunkSize

\* Texts with "\r\n" line ends and a lone "\r".
CrlfContents ==
    {<<"a", CR, NL, "b">>, <<"a", CR, NL>>, <<"a", CR>>, <<CR, NL, "a", NL>>}

ScenarioLines == 120
ScenarioChunkSize == 50
ScenarioDigits == <<"0", "1", "2", "3", "4", "5", "6", "7", "8", "9", "x", "y">>

\* Line i of the scenario file: two characters that spell i in base 12.
ScenarioLine(i) ==
    <<ScenarioDigits[(i \div Len(ScenarioDigits)) + 1],
      ScenarioDigits[(i % Len(ScenarioDigits)) + 1]>>

\* A file of ScenarioLines distinct lines, the last one not terminated.
ScenarioContent == Join([i \in 1..ScenarioLines |-> ScenarioLine(i)], NL)

\* Texts holding the CDATA end marker.
CdataContents == {<<"]", "]", ">">>, <<"a", "]", "]", ">", NL, "b">>}

Contents == SeqsUpTo(Alphabet, MaxContentLen) \cup CrlfContents \cup CdataContents

\* Supplied part lists for a file of n parts: ids 0, the ids in range and
\* one id past the end, each with a body.
SuppliedLists(n) ==
    SeqsUpTo([part_id : 0..(n + 1), content : Bodies], MaxSupplied)

NotRun == [panic |-> FALSE, none |-> TRUE]

VARIABLES
    contents,         \* the text of the file the function is applied to
    chunk_size,       \* the chunk size handed to the function
    supplied,         \* the parts handed to the Applier
    overflow_checks,  \* whether the build panics on arithmetic overflow
    fn_pc,            \* "input", "chunked" or "merged"
    chunked,          \* what read_and_format_file returned
    merged,           \* what the merge of the updated file produced
    original_paths,   \* the files handed to save_individual_files, in order
    fs,               \* the working tree: path -> text, or Absent
    out_dir,          \* the output directory: its top-level and staged files
    rollback_dir,     \* the .rollback directory under the output directory
    pc,               \* "idle", "scan" (inside process_file) or "finalize"
    auto,             \* the auto flag of the run
    original_contents,\* the texts save_individual_files read before the scan
    parser,           \* the fields of XmlParser
    saved_files,      \* process_file's counter
    open_tags,        \* the reader's stack of open element names
    n_events,         \* events read so far, over all runs
    runs,             \* runs started so far
    hist,             \* history: what the runs and rollbacks did
    directory_files,  \* the files handed to combine_text_files, with their texts
    parts_to_edit,    \* the selection: path -> part ids
    preprocessed_prompt, \* the text handed to the filter, as the reader's events
    filtered_prompt,  \* what the filter returned
    filter_pc,        \* "input", "parser", "main" or "pipeline"
    main_frame,       \* main's position and locals in a pipeline run
    assistant_response, \* the code assistant's response: its patch and wire format
    checkpoint_dir,   \* the checkpoint's backup area and record
    config_toml       \* config.toml next to the executable

filter_vars == <<directory_files, parts_to_edit, preprocessed_prompt,
                 filtered_prompt, filter_pc>>

fn_vars == <<contents, supplied, overflow_checks, fn_pc, chunked, merged,
             directory_files, parts_to_edit, preprocessed_prompt,
             filtered_prompt, filter_pc, main_frame, assistant_response, checkpoint_dir,
             config_toml>>

run_vars == <<original_paths, fs, out_dir, rollback_dir, pc, auto, original_contents,
              parser, saved_files, open_tags, n_events, runs, hist>>

vars == <<contents, chunk_size, supplied, overflow_checks, fn_pc, chunked, merged,
          original_paths, fs, out_dir, rollback_dir, pc, auto, original_contents,
          parser, saved_files, open_tags, n_events, runs, hist,
          directory_files, parts_to_edit, preprocessed_prompt,
          filtered_prompt, filter_pc, main_frame, assistant_response, checkpoint_dir,
             config_toml>>

\* No filter has run.
FilterOff ==
    /\ directory_files = <<>>
    /\ parts_to_edit = <<>>
    /\ preprocessed_prompt = <<>>
    /\ filtered_prompt = NotRun
    /\ filter_pc = "off"

\* No response is at hand.
NoResponse ==
    [format |-> "none", applied |-> FALSE,
     patch |-> [updated_files |-> <<>>, new_files |-> <<>>, response |-> <<>>]]

\* main is not running.
NoMain ==
    [command |-> "none", pc |-> "off", config_retries |-> 0, retries |-> 0,
     metadata_len |-> <<>>, output_file_text |-> <<>>, preprocessor_calls |-> 0,
     assistant_calls |-> 0, preprocessed |-> FALSE, responded |-> FALSE, result |-> ""]

\* The default configuration read_config writes when there is no config.toml.
\* The temperature is counted in tenths; log_level and system_prompt, which
\* no validation reads, are left out.
DefaultChunkSize == 50
DefaultRetries == 3
DefaultConfig ==
    [chunk_size |-> DefaultChunkSize, api_key |-> FALSE, output_directory |-> "./",
     temperature |-> 0, retries |-> DefaultRetries]

\* There is no config.toml.
NoConfigFile == [exists |-> FALSE, config |-> DefaultConfig]

\* ------------------------------------------------------------ run inputs
MaxRuns == 2
MaxEvents == 6
MaxDepth == 2
MaxParts == 2

\* A text no file holds: the mark of a path with no file.
Absent == <<"<absent>">>
\* Option::None for a path, and a path attribute the tag does not carry.
NonePath == <<"<none>">>
NoAttr == <<"<no attribute>">>

P_A == <<"d", "/", "a">>
P_A2 == <<"e", "/", "a">>
P_SHORT == <<"a">>
P_N == <<"n">>

\* Every path of the working tree the model follows.
WorkPaths == {P_A, P_A2, P_SHORT, P_N}

\* The path attribute values a response carries.
RespPaths == {P_SHORT, P_N}

\* The file lists a run is given: two files that exist, or a file that
\* exists and a path that does not exist yet.
OriginalPathLists == {<<P_A, P_A2>>, <<P_A, P_N>>}

\* The chunk sizes of the runs: the configuration holds one above 0.
RunChunkSizes == {1}

\* The working tree before the first run: the two sources exist.
InitialFs ==
    [p \in WorkPaths |->
        CASE p = P_A -> <<"a", NL, "b">>
          [] p = P_A2 -> <<"b", NL, "a">>
          [] OTHER -> Absent]

\* A file tag's parts attribute: absent, or the ids its value parses to.
PartsAttrs == {[has |-> FALSE, ids |-> <<>>], [has |-> TRUE, ids |-> <<2>>]}

\* A part tag's id attribute: absent, a value that is no number, or the
\* number its value spells.
PartIdAttrs ==
    {[has |-> FALSE, parses |-> FALSE, value |-> 0],
     [has |-> TRUE, parses |-> FALSE, value |-> 0]}
    \cup {[has |-> TRUE, parses |-> TRUE, value |-> i] : i \in 1..3}

\* The text of a text or CDATA event outside a commentary construct.
Texts == {<<"X">>}

\* The text of a text or CDATA event of a commentary construct.
CommentaryTexts == {<<"R">>}

\* ------------------------------------------------------------ path helpers
\* str::ends_with
EndsWith(text, suffix) ==
    /\ Len(suffix) <= Len(text)
    /\ SubSeq(text, Len(text) - Len(suffix) + 1, Len(text)) = suffix

\* original_paths.iter().find(|p| p.ends_with(&path)).unwrap_or(&fallback)
RECURSIVE resolve(_, _)
resolve(paths, path) ==
    IF paths = <<>> THEN path
    ELSE IF EndsWith(Head(paths), path) THEN Head(paths)
    ELSE resolve(Tail(paths), path)

\* Path::file_name: what follows the last "/".
RECURSIVE file_name(_)
file_name(path) ==
    IF \E i \in 1..Len(path) : path[i] = "/"
    THEN file_name(Tail(path))
    ELSE path

\* ------------------------------------------------------ rollback directory
TomlName == <<"rollback.toml">>
RollbackNames == {file_name(p) : p \in WorkPaths} \cup {TomlName}

AbsentEntry == [kind |-> "absent", text |-> <<>>, new_files |-> <<>>, rollback_files |-> <<>>]
TextEntry(text) == [kind |-> "text", text |-> text, new_files |-> <<>>, rollback_files |-> <<>>]
\* toml::to_string(&rollback_config), kept as the structure it spells.
TomlEntry(cfg) ==
    [kind |-> "toml", text |-> <<>>,
     new_files |-> cfg.new_files, rollback_files |-> cfg.rollback_files]

NoRollbackDir == [exists |-> FALSE, files |-> [n \in RollbackNames |-> AbsentEntry]]

\* ------------------------------------------------------ checkpoint area
\* The name of a file's backup in the flat backup area: its path with the
\* separators replaced by a safe character.
backup_name(path) == [i \in 1..Len(path) |-> IF path[i] = "/" THEN "_" ELSE path[i]]

CheckpointNames == {backup_name(p) : p \in WorkPaths}

\* No checkpoint was taken: no backup area, no record.
NoCheckpoint ==
    [exists |-> FALSE, files |-> [n \in CheckpointNames |-> Absent],
     checkpoint_files |-> <<>>]

\* ------------------------------------------------------------------ parser
\* XmlParser::new
NewParser ==
    [current_path |-> NonePath,
     current_parts |-> <<>>,
     response_txt_content |-> <<>>,
     in_response_tag |-> FALSE]

EmptyPart(id) == [part_id |-> id, content |-> <<>>]

\* The texts of the accumulated parts, joined with "\n".
JoinedParts(parts_list) ==
    Join([i \in 1..Len(parts_list) |-> parts_list[i].content], NL)

\* handle_file_start: the path and parts attributes of a file or new_file tag.
handle_file_start(ps, path_attr, parts_attr) ==
    [ps EXCEPT
       !.current_path = IF path_attr # NoAttr THEN path_attr ELSE @,
       !.current_parts = IF parts_attr.has
                         THEN [i \in 1..Len(parts_attr.ids) |-> EmptyPart(parts_attr.ids[i])]
                         ELSE @]

\* A handle_part_start that records a part whose id is no number under id 1.
handle_part_start_default_one(ps, id_attr) ==
    IF ps.in_response_tag
    THEN [ps EXCEPT !.current_parts = Append(@, EmptyPart(0))]
    ELSE IF id_attr.has
    THEN LET part_id == IF id_attr.parses THEN id_attr.value ELSE 1
         IN  [ps EXCEPT !.current_parts = Append(@, EmptyPart(part_id))]
    ELSE ps

\* handle_part_start: a part tag with or without an id attribute.
handle_part_start(ps, id_attr) ==
    IF ps.in_response_tag
    THEN [ps EXCEPT !.current_parts = Append(@, EmptyPart(0))]
    ELSE IF id_attr.has
    THEN LET part_id == IF id_attr.parses THEN id_attr.value ELSE 0
         IN  [ps EXCEPT !.current_parts = Append(@, EmptyPart(part_id))]
    ELSE ps

\* handle_text: the text goes to the last accumulated part, if there is one.
handle_text(ps, text) ==
    IF ps.current_parts = <<>> THEN ps
    ELSE [ps EXCEPT !.current_parts[Len(ps.current_parts)].content = @ \o text]

\* ----------------------------------------------------------------- history
NoHistory ==
    [last_op |-> "none",       \* what the last finished operation was
     prev_op |-> "none",       \* and the one before it
     pre_run |-> InitialFs,    \* the working tree when the last run started
     written |-> {},           \* paths the last run's scan wrote in the tree
     created |-> {},           \* paths a new_file end of the last run created
     saw_error |-> FALSE,      \* the last run's scan hit a reader error
     unresolved |-> FALSE,     \* a file end of the last run found no file to read
     modified |-> {},          \* originals whose text the last run changed
     body_tag |-> "",          \* the file or new_file tag last opened, "" once
                               \* a tag other than part opened after it
     body_path |-> NoAttr,     \* and its path attribute
     body_parts |-> <<>>,      \* the part elements, and the texts outside
                               \* them, read in the body of the file or
                               \* new_file construct last opened
     record_run |-> 0,         \* the run that wrote the record on disk, 0: none
     checkpoint_tree |-> InitialFs, \* the working tree at the last checkpoint
     covered |-> {},           \* the files the last checkpoint expanded to
     edited |-> {},            \* the files modified since the last checkpoint
     checkpoints |-> 0]        \* the checkpoints taken so far

Finished(h, op) == [h EXCEPT !.prev_op = h.last_op, !.last_op = op]

\* The innermost open tag, "" when none is open.
TopTag == IF open_tags = <<>> THEN "" ELSE open_tags[Len(open_tags)]

\* A part tag is open right under a file or new_file tag.
InBodyPart ==
    /\ Len(open_tags) >= 2
    /\ open_tags[Len(open_tags)] = "part"
    /\ open_tags[Len(open_tags) - 1] \in {"file", "new_file"}

\* The history after a part tag opened with this id attribute.
BodyPartRead(h, id_attr) ==
    IF TopTag \in {"file", "new_file"}
    THEN [h EXCEPT !.body_parts =
                     Append(@, [id_attr |-> id_attr, content |-> <<>>, bare |-> FALSE])]
    ELSE h

\* The history after a text was read.
BodyTextRead(h, text) ==
    IF InBodyPart /\ h.body_parts # <<>>
    THEN [h EXCEPT !.body_parts[Len(h.body_parts)].content = @ \o text]
    ELSE IF TopTag \in {"file", "new_file"}
    THEN [h EXCEPT !.body_parts =
                     Append(@, [id_attr |-> [has |-> FALSE, parses |-> FALSE, value |-> 0],
                                content |-> text, bare |-> TRUE])]
    ELSE h

\* The text is read inside a commentary construct: the innermost open
\* construct tag is a response tag.
InCommentary ==
    \E i \in 1..Len(open_tags) :
        /\ open_tags[i] = "response"
        /\ \A j \in (i + 1)..Len(open_tags) : open_tags[j] \notin {"file", "new_file"}

\* ---------------------------------------------------------------- the runs
Init ==
    /\ contents = <<>>
    /\ supplied = <<>>
    /\ overflow_checks = FALSE
    /\ fn_pc = "off"
    /\ chunked = NotRun
    /\ merged = NotRun
    /\ chunk_size \in RunChunkSizes
    /\ original_paths \in OriginalPathLists
    /\ fs = InitialFs
    /\ out_dir = [exists |-> FALSE, response_txt |-> Absent,
                  code |-> [p \in RespPaths |-> Absent]]
    /\ rollback_dir = NoRollbackDir
    /\ pc = "idle"
    /\ auto = FALSE
    /\ original_contents = <<>>
    /\ parser = NewParser
    /\ saved_files = 0
    /\ open_tags = <<>>
    /\ n_events = 0
    /\ runs = 0
    /\ hist = NoHistory
    /\ FilterOff
    /\ main_frame = NoMain
    /\ assistant_response = NoResponse
    /\ checkpoint_dir = NoCheckpoint
    /\ config_toml = NoConfigFile

\* The history at the start of a run.
Started(h) ==
    [h EXCEPT !.pre_run = fs, !.written = {}, !.created = {}, !.saw_error = FALSE,
              !.unresolved = FALSE, !.modified = {}, !.body_tag = "", !.body_path = NoAttr,
              !.body_parts = <<>>]

\* save_individual_files up to the call of process_file: the output
\* directory is cleared of its files or created, .rollback is created, the
\* originals are read into memory.
StartRun ==
    /\ pc = "idle"
    /\ runs < MaxRuns
    /\ runs' = runs + 1
    /\ \E a \in BOOLEAN : auto' = a
    /\ out_dir' = [out_dir EXCEPT !.exists = TRUE, !.response_txt = Absent]
    /\ rollback_dir' = [rollback_dir EXCEPT !.exists = TRUE]
    /\ parser' = NewParser
    /\ saved_files' = 0
    /\ open_tags' = <<>>
    /\ UNCHANGED n_events
    /\ IF \E i \in 1..Len(original_paths) : fs[original_paths[i]] = Absent
       THEN /\ pc' = "idle"
            /\ original_contents' = <<>>
            /\ hist' = Finished(Started(hist), "run_err")
       ELSE /\ pc' = "scan"
            /\ original_contents' =
                 [i \in 1..Len(original_paths) |->
                    [path |-> original_paths[i], content |-> fs[original_paths[i]]]]
            /\ hist' = Started(hist)
    /\ UNCHANGED <<original_paths, fs, chunk_size>>
    /\ UNCHANGED fn_vars

\* What every event that only changes the parser leaves alone.
ScanFrame ==
    /\ UNCHANGED <<original_paths, fs, out_dir, rollback_dir, pc, auto,
                   original_contents, saved_files, runs, chunk_size>>
    /\ UNCHANGED fn_vars

CanRead == pc = "scan" /\ n_events < MaxEvents

Opened(tag) ==
    /\ Len(open_tags) < MaxDepth
    /\ open_tags' = Append(open_tags, tag)
    /\ n_events' = n_events + 1

Closed(tag) ==
    /\ open_tags # <<>>
    /\ open_tags[Len(open_tags)] = tag
    /\ open_tags' = SubSeq(open_tags, 1, Len(open_tags) - 1)
    /\ n_events' = n_events + 1

\* Event::Start of a file or new_file tag.
EvStartFile ==
    /\ CanRead
    /\ \E tag \in {"file", "new_file"}, path_attr \in RespPaths \cup {NoAttr},
          parts_attr \in PartsAttrs :
         /\ Opened(tag)
         /\ parser' = handle_file_start(parser, path_attr, parts_attr)
         /\ hist' = [hist EXCEPT !.body_tag = tag, !.body_path = path_attr,
                                    !.body_parts = <<>>]
    /\ ScanFrame

\* Event::Start of a part tag.
EvStartPart ==
    /\ CanRead
    /\ Len(parser.current_parts) < MaxParts
    /\ Opened("part")
    /\ \E id_attr \in PartIdAttrs :
         /\ parser' = handle_part_start(parser, id_attr)
         /\ hist' = BodyPartRead(hist, id_attr)
    /\ ScanFrame

\* Event::Start of a response tag.
EvStartResponse ==
    /\ CanRead
    /\ Opened("response")
    /\ parser' = [parser EXCEPT !.in_response_tag = TRUE,
                                !.current_parts = <<EmptyPart(0)>>]
    /\ hist' = [hist EXCEPT !.body_tag = ""]
    /\ ScanFrame

\* Event::Start of a parts_to_edit or preprocessor_prompt tag.
EvStartSection ==
    /\ CanRead
    /\ \E tag \in {"parts_to_edit", "preprocessor_prompt"} : Opened(tag)
    /\ parser' = [parser EXCEPT !.current_path = NonePath, !.current_parts = <<>>]
    /\ hist' = [hist EXCEPT !.body_tag = ""]
    /\ ScanFrame

\* Event::Text or Event::CData.
EvText ==
    /\ CanRead
    /\ n_events' = n_events + 1
    /\ \E text \in (IF InCommentary THEN CommentaryTexts ELSE Texts) :
         /\ parser' = handle_text(parser, text)
         /\ hist' = BodyTextRead(hist, text)
    /\ UNCHANGED open_tags
    /\ ScanFrame

\* Event::End of a part tag: nothing is done.
EvEndPart ==
    /\ CanRead
    /\ Closed("part")
    /\ UNCHANGED hist
    /\ UNCHANGED parser
    /\ ScanFrame

\* Event::End of a file tag: resolve, read, re-chunk, overlay, write.
EvEndFile ==
    /\ CanRead
    /\ Closed("file")
    /\ IF parser.current_path = NonePath
       THEN /\ UNCHANGED hist
            /\ UNCHANGED <<parser, fs, out_dir, pc, saved_files>>
       ELSE LET path == parser.current_path
                original_file_path == resolve(original_paths, path)
            IN  IF fs[original_file_path] = Absent
                THEN \* read_to_string fails and `?` returns the error
                     /\ parser' = [parser EXCEPT !.current_path = NonePath]
                     /\ pc' = "idle"
                     /\ hist' = Finished([hist EXCEPT !.unresolved = TRUE], "run_err")
                     /\ UNCHANGED <<fs, out_dir, saved_files>>
                ELSE LET m == merge_file(fs[original_file_path], chunk_size,
                                         parser.current_parts)
                     IN  /\ parser' = [parser EXCEPT !.current_path = NonePath,
                                                     !.current_parts = <<>>]
                         /\ IF auto
                            THEN /\ fs' = [fs EXCEPT ![original_file_path] = m.new_content]
                                 /\ hist' = [hist EXCEPT !.written = @ \cup {original_file_path}]
                                 /\ UNCHANGED out_dir
                            ELSE /\ out_dir' = [out_dir EXCEPT !.code[path] = m.new_content]
                                 /\ UNCHANGED hist
                                 /\ UNCHANGED fs
                         /\ saved_files' = saved_files + 1
                         /\ UNCHANGED pc
    /\ UNCHANGED <<original_paths, rollback_dir, auto, original_contents, runs, chunk_size>>
    /\ UNCHANGED fn_vars

\* Event::End of a new_file tag: the accumulated texts are written to the path.
EvEndNewFile ==
    /\ CanRead
    /\ Closed("new_file")
    /\ IF parser.current_path = NonePath
       THEN /\ UNCHANGED hist
            /\ UNCHANGED <<parser, fs, saved_files>>
       ELSE LET file_path == parser.current_path
            IN  /\ fs' = [fs EXCEPT ![file_path] = JoinedParts(parser.current_parts)]
                /\ parser' = [parser EXCEPT !.current_path = NonePath,
                                            !.current_parts = <<>>]
                /\ saved_files' = saved_files + 1
                /\ hist' = [hist EXCEPT
                              !.written = @ \cup {file_path},
                              !.created = IF fs[file_path] = Absent
                                          THEN @ \cup {file_path} ELSE @]
    /\ UNCHANGED <<original_paths, out_dir, rollback_dir, pc, auto, original_contents,
                   runs, chunk_size>>
    /\ UNCHANGED fn_vars

\* Event::End of a response tag: the commentary goes to response.txt.
EvEndResponse ==
    /\ CanRead
    /\ Closed("response")
    /\ LET text == JoinedParts(parser.current_parts)
       IN  /\ parser' = [parser EXCEPT !.in_response_tag = FALSE,
                                       !.response_txt_content = text,
                                       !.current_parts = <<>>]
           /\ out_dir' = IF text # <<>>
                         THEN [out_dir EXCEPT !.response_txt = text]
                         ELSE out_dir
    /\ UNCHANGED hist
    /\ UNCHANGED <<original_paths, fs, rollback_dir, pc, auto, original_contents,
                   saved_files, runs, chunk_size>>
    /\ UNCHANGED fn_vars

\* Event::End of a parts_to_edit or preprocessor_prompt tag.
EvEndSection ==
    /\ CanRead
    /\ \/ /\ Closed("parts_to_edit")
          /\ parser' = [parser EXCEPT !.current_path = NonePath]
       \/ /\ Closed("preprocessor_prompt")
          /\ parser' = [parser EXCEPT !.current_parts = <<>>]
    /\ UNCHANGED hist
    /\ ScanFrame

\* Event::Eof: the loop ends.
EvEof ==
    /\ pc = "scan"
    /\ pc' = "finalize"
    /\ UNCHANGED <<original_paths, fs, out_dir, rollback_dir, auto, original_contents,
                   parser, saved_files, open_tags, n_events, runs, hist, chunk_size>>
    /\ UNCHANGED fn_vars

\* Err(e): the error is logged and the loop ends like at Eof.
EvErr ==
    /\ CanRead
    /\ pc' = "finalize"
    /\ n_events' = n_events + 1
    /\ hist' = [hist EXCEPT !.saw_error = TRUE]
    /\ UNCHANGED <<original_paths, fs, out_dir, rollback_dir, auto, original_contents,
                   parser, saved_files, open_tags, runs, chunk_size>>
    /\ UNCHANGED fn_vars

\* The backups of the originals whose text changed, written one after the
\* other in list order: the directory's files and the recorded pairs.
RECURSIVE backup_modified(_, _, _)
backup_modified(files, pairs, originals) ==
    IF originals = <<>> THEN [files |-> files, pairs |-> pairs]
    ELSE LET o == Head(originals)
             name == file_name(o.path)
         IN  IF o.content # fs[o.path]
             THEN backup_modified([files EXCEPT ![name] = TextEntry(o.content)],
                                  Append(pairs, <<o.path, name>>),
                                  Tail(originals))
             ELSE backup_modified(files, pairs, Tail(originals))

\* save_individual_files after process_file returned Ok: the modified
\* originals are backed up and rollback.toml is written.
Finalize ==
    /\ pc = "finalize"
    /\ IF \E i \in 1..Len(original_contents) : fs[original_contents[i].path] = Absent
       THEN /\ hist' = Finished(hist, "run_err")
            /\ UNCHANGED rollback_dir
       ELSE LET b == backup_modified(rollback_dir.files, <<>>, original_contents)
                rollback_config ==
                    [new_files |-> SelectSeq(original_paths, LAMBDA q : fs[q] = Absent),
                     rollback_files |-> b.pairs]
            IN  /\ rollback_dir' = [rollback_dir EXCEPT
                      !.files = [b.files EXCEPT ![TomlName] = TomlEntry(rollback_config)]]
                /\ hist' = Finished([hist EXCEPT
                              !.record_run = runs,
                              !.modified = {q \in DOMAIN fs : fs[q] # hist.pre_run[q]
                                                              /\ hist.pre_run[q] # Absent}],
                            "run_ok")
    /\ pc' = "idle"
    /\ UNCHANGED <<original_paths, fs, out_dir, auto, original_contents, parser,
                   saved_files, open_tags, n_events, runs, chunk_size>>
    /\ UNCHANGED fn_vars

\* The text a rollback directory entry holds when it is copied.
EntryText(e) == IF e.kind = "text" THEN e.text ELSE <<"<toml>">>

\* The loop deleting the record's new files that exist.
RECURSIVE delete_new_files(_, _)
delete_new_files(tree, new_files) ==
    IF new_files = <<>> THEN tree
    ELSE delete_new_files([tree EXCEPT ![Head(new_files)] = Absent], Tail(new_files))

\* The loop copying every backup that exists over its original.
RECURSIVE restore_backups(_, _, _)
restore_backups(tree, files, pairs) ==
    IF pairs = <<>> THEN tree
    ELSE LET original_path == Head(pairs)[1]
             backup == files[Head(pairs)[2]]
         IN  restore_backups(IF backup.kind # "absent"
                             THEN [tree EXCEPT ![original_path] = EntryText(backup)]
                             ELSE tree,
                             files, Tail(pairs))

\* A rollback that leaves the directory and its record in place.
remove_dir_all_skipped(dir) == dir

\* fs::remove_dir_all(rollback_dir): the directory and all it holds are gone.
remove_dir_all(dir) == [exists |-> FALSE, files |-> [n \in DOMAIN dir.files |-> AbsentEntry]]

\* rollback_last_run
Rollback ==
    /\ pc = "idle"
    /\ hist.last_op \in {"none", "run_ok", "run_err", "rollback_ok"}
    /\ IF ~rollback_dir.exists
       THEN /\ hist' = Finished(hist, "no_changes")
            /\ UNCHANGED <<fs, rollback_dir>>
       ELSE LET record == rollback_dir.files[TomlName]
            IN  CASE record.kind = "absent" ->
                       /\ hist' = Finished(hist, "rollback_err")
                       /\ UNCHANGED <<fs, rollback_dir>>
                  [] record.kind = "text" ->
                       /\ hist' = Finished(hist, "rollback_panic")
                       /\ UNCHANGED <<fs, rollback_dir>>
                  [] record.kind = "toml" ->
                       /\ fs' = restore_backups(delete_new_files(fs, record.new_files),
                                                rollback_dir.files, record.rollback_files)
                       /\ rollback_dir' = remove_dir_all(rollback_dir)
                       /\ hist' = Finished([hist EXCEPT !.record_run = 0], "rollback_ok")
    /\ UNCHANGED <<original_paths, out_dir, pc, auto, original_contents, parser,
                   saved_files, open_tags, n_events, runs, chunk_size>>
    /\ UNCHANGED fn_vars

Next ==
    \/ StartRun
    \/ EvStartFile
    \/ EvStartPart
    \/ EvStartResponse
    \/ EvStartSection
    \/ EvText
    \/ EvEndPart
    \/ EvEndFile
    \/ EvEndNewFile
    \/ EvEndResponse
    \/ EvEndSection
    \/ EvEof
    \/ EvErr
    \/ Finalize
    \/ Rollback

Spec == Init /\ [][Next]_vars

\* ------------------------------------------- two originals of one file name
\* The file lists of an auto run over d/a and e/a.
BackupPathLists == {<<P_A, P_A2>>, <<P_A2, P_A>>}

\* save_individual_files has read the originals of an auto run and
\* process_file is about to read the response.
InitBackup ==
    /\ contents = <<>>
    /\ supplied = <<>>
    /\ overflow_checks = FALSE
    /\ fn_pc = "off"
    /\ chunked = NotRun
    /\ merged = NotRun
    /\ chunk_size \in RunChunkSizes
    /\ original_paths \in BackupPathLists
    /\ fs = InitialFs
    /\ out_dir = [exists |-> TRUE, response_txt |-> Absent,
                  code |-> [p \in RespPaths |-> Absent]]
    /\ rollback_dir = [NoRollbackDir EXCEPT !.exists = TRUE]
    /\ pc = "scan"
    /\ auto = TRUE
    /\ original_contents =
         [i \in 1..Len(original_paths) |->
            [path |-> original_paths[i], content |-> InitialFs[original_paths[i]]]]
    /\ parser = NewParser
    /\ saved_files = 0
    /\ open_tags = <<>>
    /\ n_events = 0
    /\ runs = MaxRuns
    /\ hist = Started(NoHistory)
    /\ FilterOff
    /\ main_frame = NoMain
    /\ assistant_response = NoResponse
    /\ checkpoint_dir = NoCheckpoint
    /\ config_toml = NoConfigFile

\* Event::Start of a file tag whose path attribute is the path of an
\* original, as the chunk set spells it.
EvStartFileOfOriginal ==
    /\ CanRead
    /\ \E i \in 1..Len(original_paths), parts_attr \in PartsAttrs :
         /\ Opened("file")
         /\ parser' = handle_file_start(parser, original_paths[i], parts_attr)
         /\ hist' = [hist EXCEPT !.body_tag = "file", !.body_path = original_paths[i],
                                    !.body_parts = <<>>]
    /\ ScanFrame

NextBackup ==
    \/ EvStartFileOfOriginal
    \/ EvStartPart
    \/ EvText
    \/ EvEndPart
    \/ EvEndFile
    \/ EvEof
    \/ Finalize
    \/ Rollback

SpecBackup == InitBackup /\ [][NextBackup]_vars

\* ------------------------------------------- rollback with I/O errors
\* A rollback that removes the directory on its way out of an I/O error.
cleanup_on_io_error(dir) == remove_dir_all(dir)

\* fs::remove_file(path).await? and fs::copy(..).await?: the error leaves
\* rollback_last_run at once, before fs::remove_dir_all is reached.
return_on_io_error(dir) == dir

\* What a failed fs::copy leaves of its destination: the text it had (the
\* file could not be opened) or nothing (it was truncated, then the copy broke).
FailedCopyLeaves(text) == {text, <<>>}

\* rollback_last_run, every remove_file and every copy of which may fail.
RollbackIo ==
    /\ pc = "idle"
    /\ hist.last_op \in {"none", "run_ok", "run_err", "rollback_ok", "rollback_io_err"}
    /\ IF ~rollback_dir.exists
       THEN /\ hist' = Finished(hist, "no_changes")
            /\ UNCHANGED <<fs, rollback_dir>>
       ELSE LET record == rollback_dir.files[TomlName]
                deleted == delete_new_files(fs, record.new_files)
            IN  CASE record.kind = "absent" ->
                       /\ hist' = Finished(hist, "rollback_err")
                       /\ UNCHANGED <<fs, rollback_dir>>
                  [] record.kind = "text" ->
                       /\ hist' = Finished(hist, "rollback_panic")
                       /\ UNCHANGED <<fs, rollback_dir>>
                  [] record.kind = "toml" ->
                       \/ \* every call returned Ok
                          /\ fs' = restore_backups(deleted, rollback_dir.files,
                                                   record.rollback_files)
                          /\ rollback_dir' = remove_dir_all(rollback_dir)
                          /\ hist' = Finished([hist EXCEPT !.record_run = 0], "rollback_ok")
                       \/ \* remove_file of the k-th new file failed
                          \E k \in 1..Len(record.new_files) :
                             /\ delete_new_files(fs, SubSeq(record.new_files, 1, k - 1))
                                    [record.new_files[k]] # Absent
                             /\ fs' = delete_new_files(fs, SubSeq(record.new_files, 1, k - 1))
                             /\ rollback_dir' = return_on_io_error(rollback_dir)
                             /\ hist' = Finished(hist, "rollback_io_err")
                       \/ \* the copy of the k-th backup failed
                          \E k \in 1..Len(record.rollback_files) :
                             LET original_path == record.rollback_files[k][1]
                                 before == restore_backups(deleted, rollback_dir.files,
                                               SubSeq(record.rollback_files, 1, k - 1))
                             IN  /\ rollback_dir.files[record.rollback_files[k][2]].kind # "absent"
                                 /\ \E left \in FailedCopyLeaves(before[original_path]) :
                                      fs' = [before EXCEPT ![original_path] = left]
                                 /\ rollback_dir' = return_on_io_error(rollback_dir)
                                 /\ hist' = Finished(hist, "rollback_io_err")
    /\ UNCHANGED <<original_paths, out_dir, pc, auto, original_contents, parser,
                   saved_files, open_tags, n_events, runs, chunk_size>>
    /\ UNCHANGED fn_vars

NextRollbackIo ==
    \/ EvStartFileOfOriginal
    \/ EvStartPart
    \/ EvText
    \/ EvEndPart
    \/ EvEndFile
    \/ EvEof
    \/ Finalize
    \/ RollbackIo

SpecRollbackIo == InitBackup /\ [][NextRollbackIo]_vars

\* ------------------------------------------------------- the pipeline run
MAX_FILE_SIZE == 10485760
MaxRetries == 2

\* metadata.len() of a listed file: at the ceiling, or one byte above it.
FileSizes == {MAX_FILE_SIZE, MAX_FILE_SIZE + 1}

\* combine_text_files with read_and_format_file's size check: the file
\* elements of the listed paths in order, or the error of the first file
\* above the ceiling (`?` drops what was combined so far).
RECURSIVE combine_text_files_checked(_, _)
combine_text_files_checked(paths, lens) ==
    IF paths = <<>> THEN [ok |-> TRUE, files |-> <<>>]
    ELSE IF Head(lens) > MAX_FILE_SIZE THEN [ok |-> FALSE, files |-> <<>>]
    ELSE LET rest == combine_text_files_checked(Tail(paths), Tail(lens))
         IN  IF rest.ok
             THEN [ok |-> TRUE, files |-> <<Head(paths)>> \o rest.files]
             ELSE rest

\* A retry rule that gives each of the two loops a budget of its own: the
\* loop under way retries until it has made config.retries + 1 calls.
on_service_error_own_budget(frame, error) ==
    LET calls == IF frame.pc = "preprocessor" THEN frame.preprocessor_calls
                 ELSE frame.assistant_calls
    IN  IF calls <= frame.config_retries
        THEN frame
        ELSE [frame EXCEPT !.pc = "returned", !.result = error]

\* A service call's error that is swallowed: main goes on as if the call
\* had returned Ok.
on_service_error_ignored(frame, error) ==
    [frame EXCEPT !.pc = IF frame.pc = "preprocessor" THEN "parse" ELSE "mkdir"]

\* Err(e) if retries > 0 => { retries -= 1; sleep }, Err(e) => return Err(e)
on_service_error(frame, error) ==
    IF frame.retries > 0
    THEN [frame EXCEPT !.retries = @ - 1]
    ELSE [frame EXCEPT !.pc = "returned", !.result = error]

\* main has read the configuration and listed the files to press.
InitPipeline ==
    /\ contents = <<>>
    /\ supplied = <<>>
    /\ overflow_checks = FALSE
    /\ fn_pc = "off"
    /\ chunked = NotRun
    /\ merged = NotRun
    /\ chunk_size \in RunChunkSizes
    /\ original_paths \in BackupPathLists
    /\ fs = InitialFs
    /\ out_dir = [exists |-> FALSE, response_txt |-> Absent,
                  code |-> [p \in RespPaths |-> Absent]]
    /\ rollback_dir = NoRollbackDir
    /\ pc = "idle"
    /\ auto = FALSE
    /\ original_contents = <<>>
    /\ parser = NewParser
    /\ saved_files = 0
    /\ open_tags = <<>>
    /\ n_events = 0
    /\ runs = 0
    /\ hist = NoHistory
    /\ FilterOff
    /\ \E c \in 0..MaxRetries, lens \in [1..2 -> FileSizes] :
         /\ main_frame = [NoMain EXCEPT !.command = "press", !.pc = "combine",
                                        !.config_retries = c, !.metadata_len = lens]
         /\ config_toml = [exists |-> TRUE,
                           config |-> [DefaultConfig EXCEPT !.chunk_size = chunk_size,
                                                            !.api_key = TRUE,
                                                            !.retries = c]]
    /\ assistant_response = NoResponse
    /\ checkpoint_dir = NoCheckpoint

\* What a step of main before the save leaves alone.
MainFrame ==
    /\ UNCHANGED <<contents, chunk_size, supplied, overflow_checks, fn_pc, chunked, merged>>
    /\ UNCHANGED filter_vars
    /\ UNCHANGED <<assistant_response, checkpoint_dir, config_toml>>
    /\ UNCHANGED <<original_paths, fs, rollback_dir, pc, auto, original_contents,
                   parser, saved_files, open_tags, n_events, runs, hist>>

\* let output_file_text = combine_text_files(..).await?; let mut retries = config.retries;
CombineFiles ==
    /\ main_frame.pc = "combine"
    /\ LET r == combine_text_files_checked(original_paths, main_frame.metadata_len)
       IN  main_frame' =
             IF r.ok
             THEN [main_frame EXCEPT !.pc = "preprocessor",
                                     !.output_file_text = r.files,
                                     !.retries = main_frame.config_retries]
             ELSE [main_frame EXCEPT !.pc = "returned", !.result = "file_too_large"]
    /\ UNCHANGED out_dir
    /\ MainFrame

\* One pass of the loop around call_deepseek_preprocessor.
CallPreprocessor ==
    /\ main_frame.pc = "preprocessor"
    /\ \E ok \in BOOLEAN :
         LET called == [main_frame EXCEPT !.preprocessor_calls = @ + 1]
         IN  main_frame' =
               IF ok
               THEN [called EXCEPT !.pc = "parse", !.preprocessed = TRUE]
               ELSE on_service_error(called, "preprocessor_error")
    /\ UNCHANGED out_dir
    /\ MainFrame

\* parse_parts_to_edit(..)? and filter_preprocessed_prompt(..)?
ParseAndFilter ==
    /\ main_frame.pc = "parse"
    /\ \E ok \in BOOLEAN :
         main_frame' = IF ok
                       THEN [main_frame EXCEPT !.pc = "assistant"]
                       ELSE [main_frame EXCEPT !.pc = "returned", !.result = "parse_error"]
    /\ UNCHANGED out_dir
    /\ MainFrame

\* One pass of the loop around call_deepseek_code_assistant.
CallAssistant ==
    /\ main_frame.pc = "assistant"
    /\ \E ok \in BOOLEAN :
         LET called == [main_frame EXCEPT !.assistant_calls = @ + 1]
         IN  main_frame' =
               IF ok
               THEN [called EXCEPT !.pc = "mkdir", !.responded = TRUE]
               ELSE on_service_error(called, "assistant_error")
    /\ UNCHANGED out_dir
    /\ MainFrame

\* tokio::fs::create_dir_all(&press_output_dir).await?
CreateOutputDir ==
    /\ main_frame.pc = "mkdir"
    /\ \/ /\ out_dir' = [out_dir EXCEPT !.exists = TRUE]
          /\ main_frame' = [main_frame EXCEPT !.pc = "save"]
       \/ /\ main_frame' = [main_frame EXCEPT !.pc = "returned",
                                               !.result = "output_dir_error"]
          /\ UNCHANGED out_dir
    /\ MainFrame

\* main calls save_individual_files with the response.
SaveIndividualFiles ==
    /\ main_frame.pc = "save"
    /\ runs = 0
    /\ StartRun

NextPipeline ==
    \/ CombineFiles
    \/ CallPreprocessor
    \/ ParseAndFilter
    \/ CallAssistant
    \/ CreateOutputDir
    \/ SaveIndividualFiles
    \/ EvStartFile
    \/ EvEndFile
    \/ EvEndNewFile
    \/ EvEof
    \/ Finalize

SpecPipeline == InitPipeline /\ [][NextPipeline]_vars

\* ------------------------------------------------------ the configuration
\* The upper end of the temperature range, in tenths.
MaxTemperature == 20

\* The directories that exist.
Directories == {"./", "out"}

\* Option<T>: None is the empty sequence, Some(v) is <<v>>.
Opt(S) == {<<>>} \cup {<<v>> : v \in S}

\* The values the subcommands' options are given.
ChunkSizeArgs == Opt({0, 1})
OutputDirectoryArgs == Opt({"out", "missing"})
RetriesArgs == Opt({0, 1})
ApiKeyArgs == Opt({TRUE})
TemperatureArgs == Opt({0 - 1, MaxTemperature, MaxTemperature + 1})

\* A validation that accepts any chunk size.
validate_config_any_chunk_size(config) ==
    IF config.temperature < 0 \/ config.temperature > MaxTemperature
    THEN "invalid_input"
    ELSE IF config.output_directory \notin Directories
    THEN "invalid_input"
    ELSE "ok"

\* validate_config
validate_config(config) ==
    IF config.chunk_size = 0
    THEN "invalid_input"
    ELSE IF config.temperature < 0 \/ config.temperature > MaxTemperature
    THEN "invalid_input"
    ELSE IF config.output_directory \notin Directories
    THEN "invalid_input"
    ELSE "ok"

\* write_config: config.toml holds the configuration, as the structure the
\* TOML text spells.
write_config(config) == [exists |-> TRUE, config |-> config]

\* read_config: the default file is written when there is none, then the
\* file is read and validated.
read_config(file) ==
    LET on_disk == IF file.exists THEN file ELSE write_config(DefaultConfig)
    IN  [file |-> on_disk, config |-> on_disk.config,
         result |-> validate_config(on_disk.config)]

\* `if let Some(v) = option { config.field = v }`
SetIfSome(option, current) == IF option = <<>> THEN current ELSE option[1]

\* main returned from a subcommand.
Returned(command, result) ==
    [NoMain EXCEPT !.command = command, !.pc = "returned", !.result = result]

\* A process of the tool can start: no other one is under way (the save of
\* a pipeline run is not followed here).
CanStart == main_frame.pc \in {"off", "returned", "save"}

\* What the subcommands leave alone.
ConfigFrame ==
    /\ UNCHANGED <<contents, supplied, overflow_checks, fn_pc, chunked, merged>>
    /\ UNCHANGED filter_vars
    /\ UNCHANGED <<assistant_response, checkpoint_dir>>
    /\ UNCHANGED run_vars

\* press config [--set-chunk-size] [--set-output-directory] [--set-retries]
ConfigSubcommand ==
    /\ CanStart
    /\ \E set_chunk_size \in ChunkSizeArgs, set_output_directory \in OutputDirectoryArgs,
          set_retries \in RetriesArgs :
         LET r == read_config(config_toml)
             config == [r.config EXCEPT
                          !.chunk_size = SetIfSome(set_chunk_size, @),
                          !.output_directory = SetIfSome(set_output_directory, @),
                          !.retries = SetIfSome(set_retries, @)]
         IN  IF r.result # "ok"
             THEN /\ config_toml' = r.file
                  /\ main_frame' = Returned("config", r.result)
             ELSE /\ config_toml' = write_config(config)
                  /\ main_frame' = Returned("config", "ok")
    /\ UNCHANGED chunk_size
    /\ ConfigFrame

\* press model-config [--set-api-key] [--set-temperature]
ModelConfigSubcommand ==
    /\ CanStart
    /\ \E set_api_key \in ApiKeyArgs, set_temperature \in TemperatureArgs :
         LET r == read_config(config_toml)
             config == [r.config EXCEPT
                          !.api_key = SetIfSome(set_api_key, @),
                          !.temperature = SetIfSome(set_temperature, @)]
         IN  IF r.result # "ok"
             THEN /\ config_toml' = r.file
                  /\ main_frame' = Returned("model-config", r.result)
             ELSE /\ config_toml' = write_config(config)
                  /\ main_frame' = Returned("model-config", "ok")
    /\ UNCHANGED chunk_size
    /\ ConfigFrame

\* press rollback, with no .rollback directory on disk.
RollbackSubcommand ==
    /\ CanStart
    /\ ~rollback_dir.exists
    /\ LET r == read_config(config_toml)
       IN  /\ config_toml' = r.file
           /\ main_frame' = Returned("rollback",
                                IF r.result # "ok" THEN r.result ELSE "no_changes")
    /\ UNCHANGED chunk_size
    /\ ConfigFrame

\* press <prompt> <paths>: main up to the listing of the files to press.
PressCommand ==
    /\ CanStart
    /\ \E prompt_given \in BOOLEAN, lens \in [1..2 -> FileSizes] :
         IF ~prompt_given
         THEN /\ main_frame' = Returned("press", "missing_prompt")
              /\ UNCHANGED <<config_toml, chunk_size>>
         ELSE LET r == read_config(config_toml)
              IN  /\ config_toml' = r.file
                  /\ IF r.result # "ok"
                     THEN /\ main_frame' = Returned("press", r.result)
                          /\ UNCHANGED chunk_size
                     ELSE IF ~r.config.api_key
                     THEN /\ main_frame' = Returned("press", "missing_api_key")
                          /\ UNCHANGED chunk_size
                     ELSE /\ main_frame' = [NoMain EXCEPT
                                              !.command = "press", !.pc = "combine",
                                              !.config_retries = r.config.retries,
                                              !.metadata_len = lens]
                          /\ chunk_size' = r.config.chunk_size
    /\ ConfigFrame

NextConfig ==
    \/ ConfigSubcommand
    \/ ModelConfigSubcommand
    \/ RollbackSubcommand
    \/ PressCommand
    \/ CombineFiles
    \/ CallPreprocessor
    \/ ParseAndFilter
    \/ CallAssistant
    \/ CreateOutputDir

\* No command was run yet: there is no config.toml.
InitConfig == Init

SpecConfig == InitConfig /\ [][NextConfig]_vars

\* ----------------------------------------------------- the functions alone
InitFn ==
    /\ \/ contents \in Contents /\ chunk_size \in ChunkSizes
       \/ contents = ScenarioContent /\ chunk_size = ScenarioChunkSize
    /\ supplied = <<>>
    /\ overflow_checks = FALSE
    /\ fn_pc = "input"
    /\ chunked = NotRun
    /\ merged = NotRun
    /\ original_paths = <<>>
    /\ fs = InitialFs
    /\ out_dir = [exists |-> FALSE, response_txt |-> Absent,
                  code |-> [p \in RespPaths |-> Absent]]
    /\ rollback_dir = NoRollbackDir
    /\ pc = "off"
    /\ auto = FALSE
    /\ original_contents = <<>>
    /\ parser = NewParser
    /\ saved_files = 0
    /\ open_tags = <<>>
    /\ n_events = 0
    /\ runs = 0
    /\ hist = NoHistory
    /\ FilterOff
    /\ main_frame = NoMain
    /\ assistant_response = NoResponse
    /\ checkpoint_dir = NoCheckpoint
    /\ config_toml = NoConfigFile

\* The Chunker is run on the file.
ChunkFile ==
    /\ fn_pc = "input"
    /\ \E checks \in BOOLEAN :
         /\ overflow_checks' = checks
         /\ chunked' = read_and_format_file(contents, chunk_size, checks)
    /\ fn_pc' = "chunked"
    /\ UNCHANGED <<contents, chunk_size, supplied, merged>>
    /\ UNCHANGED run_vars
    /\ UNCHANGED <<main_frame, assistant_response, checkpoint_dir, config_toml>>
    /\ UNCHANGED filter_vars

\* The Applier merges a list of supplied parts into the file.
MergeFile ==
    /\ fn_pc = "input"
    /\ \E parts_list \in SuppliedLists(Len(rechunk(contents, chunk_size))) :
         /\ supplied' = parts_list
         /\ merged' = merge_file(contents, chunk_size, parts_list)
    /\ fn_pc' = "merged"
    /\ UNCHANGED <<contents, chunk_size, overflow_checks, chunked>>
    /\ UNCHANGED run_vars
    /\ UNCHANGED <<main_frame, assistant_response, checkpoint_dir, config_toml>>
    /\ UNCHANGED filter_vars

NextFn == ChunkFile \/ MergeFile

SpecFn == InitFn /\ [][NextFn]_vars

\* ------------------------------------------- the file end handler on paths
\* Paths are texts, one character per element; a located file is the list of
\* the directory names that lead to it from the root.
Str_a == <<"a">>
Str_da == <<"d", "/", "a">>
Str_abs_b == <<"/", "w", "/", "b">>
Str_abs_a == <<"/", "w", "/", "a">>
Str_up_a == <<".", ".", "/", ".", ".", "/", "a">>
Str_n == <<"n">>
Str_code == <<"c", "o", "d", "e">>

\* The directory the tool runs in, and the directory save_individual_files
\* is handed (press.output under the configured "./").
Cwd == << <<"w">> >>
OutputDirectory == <<"o">>

\* The paths the user may hand to the tool, the lists of them, and the paths
\* a file tag of the response may carry.
OriginalChoices == {Str_a, Str_da, Str_abs_b}
PathLists ==
    {<<p>> : p \in OriginalChoices}
    \cup {l \in {<<p, q>> : p, q \in OriginalChoices} : l[1] # l[2]}
ResponsePaths == {Str_a, Str_da, Str_abs_a, Str_abs_b, Str_up_a, Str_n}
PathParts == {<<>>, <<[part_id |-> 1, content |-> <<"X">>]>>}

\* Path::components: the names between the separators.
RECURSIVE SplitSlash(_, _, _)
SplitSlash(path, cur, acc) ==
    IF path = <<>>
    THEN IF cur = <<>> THEN acc ELSE Append(acc, cur)
    ELSE IF Head(path) = "/"
    THEN SplitSlash(Tail(path), <<>>, IF cur = <<>> THEN acc ELSE Append(acc, cur))
    ELSE SplitSlash(Tail(path), Append(cur, Head(path)), acc)

Components(path) == SplitSlash(path, <<>>, <<>>)

is_absolute(path) == path # <<>> /\ Head(path) = "/"

\* Path::join: an absolute argument replaces the base.
path_join(base, path) ==
    IF is_absolute(path) THEN path ELSE base \o <<"/">> \o path

\* The walk the system makes from a directory along the names of a path.
RECURSIVE Walk(_, _)
Walk(names, at) ==
    IF names = <<>> THEN at
    ELSE IF Head(names) = <<".", ".">>
    THEN Walk(Tail(names), IF at = <<>> THEN at ELSE SubSeq(at, 1, Len(at) - 1))
    ELSE IF Head(names) = <<".">>
    THEN Walk(Tail(names), at)
    ELSE Walk(Tail(names), Append(at, Head(names)))

\* The file a read or write of the path reaches.
Locate(path) == Walk(Components(path), IF is_absolute(path) THEN <<>> ELSE Cwd)

\* if auto { original_file_path } else { output_directory.join("code").join(&path) }
output_file_path(auto_mode, original_file_path, path) ==
    IF auto_mode
    THEN original_file_path
    ELSE path_join(path_join(OutputDirectory, Str_code), path)

\* The files the handler can reach, and the tree before the handler runs.
Tree ==
    {Locate(p) : p \in OriginalChoices \cup ResponsePaths}
    \cup {Locate(output_file_path(FALSE, r, r)) : r \in ResponsePaths}

PathsFs ==
    [f \in Tree |->
        CASE f = Locate(Str_a) -> <<"a", NL, "b">>
          [] f = Locate(Str_da) -> <<"b", NL, "a">>
          [] f = Locate(Str_abs_b) -> <<"b">>
          [] OTHER -> Absent]

\* process_file stands at the end tag of a file construct with a path.
InitPaths ==
    /\ contents = <<>>
    /\ supplied = <<>>
    /\ overflow_checks = FALSE
    /\ fn_pc = "off"
    /\ chunked = NotRun
    /\ merged = NotRun
    /\ chunk_size \in RunChunkSizes
    /\ original_paths \in PathLists
    /\ fs = PathsFs
    /\ out_dir = [exists |-> TRUE, response_txt |-> Absent,
                  code |-> [p \in RespPaths |-> Absent]]
    /\ rollback_dir = NoRollbackDir
    /\ pc = "scan"
    /\ auto \in BOOLEAN
    /\ original_contents = <<>>
    /\ \E path \in ResponsePaths, parts_list \in PathParts :
         parser = [NewParser EXCEPT !.current_path = path,
                                    !.current_parts = parts_list]
    /\ saved_files = 0
    /\ open_tags = <<"file">>
    /\ n_events = 0
    /\ runs = 1
    /\ hist = NoHistory
    /\ FilterOff
    /\ main_frame = NoMain
    /\ assistant_response = NoResponse
    /\ checkpoint_dir = NoCheckpoint
    /\ config_toml = NoConfigFile

\* Event::End of a file tag, on the tree of located files.
FileEndOnPaths ==
    /\ pc = "scan"
    /\ open_tags = <<"file">>
    /\ parser.current_path # NonePath
    /\ open_tags' = <<>>
    /\ LET path == parser.current_path
           original_file_path == resolve(original_paths, path)
       IN  IF fs[Locate(original_file_path)] = Absent
           THEN /\ parser' = [parser EXCEPT !.current_path = NonePath]
                /\ pc' = "idle"
                /\ UNCHANGED <<fs, saved_files>>
           ELSE LET m == merge_file(fs[Locate(original_file_path)], chunk_size,
                                    parser.current_parts)
                    target == output_file_path(auto, original_file_path, path)
                IN  /\ parser' = [parser EXCEPT !.current_path = NonePath,
                                                !.current_parts = <<>>]
                    /\ fs' = [fs EXCEPT ![Locate(target)] = m.new_content]
                    /\ saved_files' = saved_files + 1
                    /\ UNCHANGED pc
    /\ UNCHANGED <<original_paths, out_dir, rollback_dir, auto, original_contents,
                   n_events, runs, hist, chunk_size>>
    /\ UNCHANGED fn_vars

NextPaths == FileEndOnPaths

SpecPaths == InitPaths /\ [][NextPaths]_vars

\* --------------------------------------------------------------- the filter
\* A text handed to a reader is the list of the events the reader yields for
\* it (trim_text drops the white space between the elements).
NoId == [has |-> FALSE, parses |-> FALSE, value |-> 0]
NoParts == [has |-> FALSE, ids |-> <<>>]

StartFileEv(path, parts_attr) ==
    [kind |-> "start", name |-> "file", path |-> path, parts |-> parts_attr,
     id |-> NoId, text |-> <<>>]
StartPartEv(id) ==
    [kind |-> "start", name |-> "part", path |-> NoAttr, parts |-> NoParts,
     id |-> [has |-> TRUE, parses |-> TRUE, value |-> id], text |-> <<>>]
StartEv(name) ==
    [kind |-> "start", name |-> name, path |-> NoAttr, parts |-> NoParts,
     id |-> NoId, text |-> <<>>]
EndEv(name) ==
    [kind |-> "end", name |-> name, path |-> NoAttr, parts |-> NoParts,
     id |-> NoId, text |-> <<>>]
CDataEv(text) ==
    [kind |-> "cdata", name |-> "", path |-> NoAttr, parts |-> NoParts,
     id |-> NoId, text |-> text]
TextEv(text) ==
    [kind |-> "text", name |-> "", path |-> NoAttr, parts |-> NoParts,
     id |-> NoId, text |-> text]

\* The part elements of a chunked file.
RECURSIVE PartEvents(_)
PartEvents(parts_list) ==
    IF parts_list = <<>> THEN <<>>
    ELSE <<StartPartEv(Head(parts_list).part_id),
           CDataEv(Head(parts_list).cdata),
           EndEv("part")>> \o PartEvents(Tail(parts_list))

\* The file element read_and_format_file writes for one file.
FileEvents(file, size) ==
    LET shown == read_and_format_file(file.contents, size, FALSE)
    IN  <<StartFileEv(file.path, [has |-> TRUE, ids |-> <<shown.num_parts>>])>>
        \o PartEvents(shown.parts) \o <<EndEv("file")>>

\* combine_text_files: the file elements of the files, in order.
RECURSIVE combine_text_files(_, _)
combine_text_files(paths, size) ==
    IF paths = <<>> THEN <<>>
    ELSE FileEvents(Head(paths), size) \o combine_text_files(Tail(paths), size)

\* XmlParser::filter_preprocessed_prompt, one event.
XmlParser_filter_event(st, e, selection) ==
    CASE e.kind = "start" /\ e.name = "file" ->
           IF e.path # NoAttr /\ e.path \in DOMAIN selection
           THEN [st EXCEPT !.current_file_path = e.path,
                           !.current_file_parts = selection[e.path],
                           !.out = Append(@, e)]
           ELSE [st EXCEPT !.current_file_path = NonePath,
                           !.current_file_parts = <<>>]
      [] e.kind = "start" /\ e.name = "part" ->
           IF st.current_file_path # NonePath /\ e.id.has
           THEN IF ~e.id.parses
                THEN [st EXCEPT !.panic = TRUE]
                ELSE IF \E k \in 1..Len(st.current_file_parts) :
                           st.current_file_parts[k] = e.id.value
                THEN [st EXCEPT !.out = Append(@, e), !.in_requested_part = TRUE]
                ELSE st
           ELSE st
      [] e.kind = "end" /\ e.name = "file" ->
           IF st.current_file_path # NonePath
           THEN [st EXCEPT !.out = Append(@, e),
                           !.current_file_path = NonePath,
                           !.current_file_parts = <<>>]
           ELSE st
      [] e.kind = "end" /\ e.name = "part" ->
           IF st.in_requested_part
           THEN [st EXCEPT !.out = Append(@, e), !.in_requested_part = FALSE]
           ELSE st
      [] e.kind \in {"text", "cdata"} ->
           IF st.in_requested_part THEN [st EXCEPT !.out = Append(@, e)] ELSE st
      [] OTHER -> st

\* filter_preprocessed_prompt of main.rs, one event.
filter_event(st, e, selection) ==
    CASE e.kind = "start" /\ e.name = "file" ->
           IF e.path # NoAttr /\ e.path \in DOMAIN selection
           THEN [st EXCEPT !.current_file_path = e.path,
                           !.current_file_parts = selection[e.path],
                           !.out = Append(@, e)]
           ELSE st
      [] e.kind = "start" /\ e.name = "part" ->
           IF e.id.has
           THEN IF ~e.id.parses
                THEN [st EXCEPT !.panic = TRUE]
                ELSE IF \E k \in 1..Len(st.current_file_parts) :
                           st.current_file_parts[k] = e.id.value
                THEN [st EXCEPT !.out = Append(@, e)]
                ELSE st
           ELSE st
      [] e.kind = "start" -> [st EXCEPT !.out = Append(@, e)]
      [] e.kind = "end" /\ e.name = "file" ->
           IF st.current_file_path # NonePath
           THEN [st EXCEPT !.out = Append(@, e),
                           !.current_file_path = NonePath,
                           !.current_file_parts = <<>>]
           ELSE st
      [] e.kind = "end" /\ e.name = "part" ->
           IF st.current_file_path # NonePath
           THEN [st EXCEPT !.out = Append(@, e)]
           ELSE st
      [] e.kind = "end" -> [st EXCEPT !.out = Append(@, e)]
      [] e.kind \in {"text", "cdata"} ->
           IF st.current_file_path # NonePath
           THEN [st EXCEPT !.out = Append(@, e)]
           ELSE st
      [] OTHER -> st

\* The locals of a filter before its loop.
NewFilter ==
    [current_file_path |-> NonePath, current_file_parts |-> <<>>,
     in_requested_part |-> FALSE, out |-> <<>>, panic |-> FALSE]

RECURSIVE XmlParser_filter_loop(_, _, _)
XmlParser_filter_loop(st, events, selection) ==
    IF events = <<>> \/ st.panic THEN st
    ELSE XmlParser_filter_loop(XmlParser_filter_event(st, Head(events), selection),
                               Tail(events), selection)

RECURSIVE filter_loop(_, _, _)
filter_loop(st, events, selection) ==
    IF events = <<>> \/ st.panic THEN st
    ELSE filter_loop(filter_event(st, Head(events), selection),
                     Tail(events), selection)

\* XmlParser::filter_preprocessed_prompt
XmlParser_filter_preprocessed_prompt(events, selection) ==
    LET st == XmlParser_filter_loop(NewFilter, events, selection)
    IN  [panic |-> st.panic, none |-> FALSE,
         out |-> IF st.panic THEN <<>> ELSE st.out]

\* filter_preprocessed_prompt of main.rs
filter_preprocessed_prompt(events, selection) ==
    LET st == filter_loop(NewFilter, events, selection)
    IN  [panic |-> st.panic, none |-> FALSE,
         out |-> IF st.panic THEN <<>> ELSE st.out]

\* HashMap::insert
MapInsert(map, key, value) ==
    [k \in DOMAIN map \cup {key} |-> IF k = key THEN value ELSE map[k]]

\* parse_parts_to_edit, one event: the selection of a file is what its parts
\* attribute parses to.
parse_parts_event(st, e) ==
    CASE e.kind = "start" /\ e.name = "file" ->
           [st EXCEPT !.current_path = IF e.path # NoAttr THEN e.path ELSE @,
                      !.current_parts = IF e.parts.has THEN e.parts.ids ELSE @]
      [] e.kind = "end" /\ e.name = "file" ->
           [st EXCEPT !.map = IF st.current_path # NonePath
                              THEN MapInsert(@, st.current_path, st.current_parts)
                              ELSE @,
                      !.current_path = NonePath,
                      !.current_parts = <<>>]
      [] OTHER -> st

RECURSIVE parse_parts_loop(_, _)
parse_parts_loop(st, events) ==
    IF events = <<>> THEN st
    ELSE parse_parts_loop(parse_parts_event(st, Head(events)), Tail(events))

parse_parts_to_edit(events) ==
    parse_parts_loop([current_path |-> NonePath, current_parts |-> <<>>,
                      map |-> <<>>], events).map

\* ------------------------------------------------------ the filter's inputs
File_a == <<"a">>
File_b == <<"b">>
FileLists ==
    {<<[path |-> File_a, contents |-> c]>> : c \in {<<"a", NL, "b">>, <<"a">>}}
    \cup {<<[path |-> File_a, contents |-> c], [path |-> File_b, contents |-> <<"c", NL, "d">>]>> :
            c \in {<<"a", NL, "b">>, <<"a">>}}
FilterChunkSizes == {1, 2}
SelectedIds == {<<>>, <<1>>, <<2>>, <<1, 2>>, <<3>>}
Selections == UNION {[S -> SelectedIds] : S \in SUBSET {File_a, File_b, Str_n}}

\* The ids of a list as the preprocessor spells them: "1,2".
DigitOf == <<"1", "2", "3">>
RECURSIVE IdsText(_)
IdsText(ids) ==
    IF ids = <<>> THEN <<>>
    ELSE IF Len(ids) = 1 THEN <<DigitOf[ids[1]]>>
    ELSE <<DigitOf[ids[1]], ",">> \o IdsText(Tail(ids))

\* A response in the format the preprocessor is told to answer in: the file,
\* its number of parts, the ids to edit, and the clarification.
PreprocessorResponse(file, size, ids) ==
    <<StartEv("parts_to_edit"),
      StartFileEv(file.path,
                  [has |-> TRUE,
                   ids |-> <<read_and_format_file(file.contents, size, FALSE).num_parts>>]),
      TextEv(IdsText(ids)),
      EndEv("file"),
      EndEv("parts_to_edit"),
      StartEv("preprocessor_prompt"),
      TextEv(<<"R">>),
      EndEv("preprocessor_prompt")>>

PreprocessorResponses(paths, size) ==
    {PreprocessorResponse(paths[i], size, ids) :
        i \in 1..Len(paths), ids \in SelectedIds \ {<<>>}}

InitFilter ==
    /\ contents = <<>>
    /\ supplied = <<>>
    /\ overflow_checks = FALSE
    /\ fn_pc = "off"
    /\ chunked = NotRun
    /\ merged = NotRun
    /\ chunk_size \in FilterChunkSizes
    /\ original_paths = <<>>
    /\ fs = InitialFs
    /\ out_dir = [exists |-> FALSE, response_txt |-> Absent,
                  code |-> [p \in RespPaths |-> Absent]]
    /\ rollback_dir = NoRollbackDir
    /\ pc = "off"
    /\ auto = FALSE
    /\ original_contents = <<>>
    /\ parser = NewParser
    /\ saved_files = 0
    /\ open_tags = <<>>
    /\ n_events = 0
    /\ runs = 0
    /\ hist = NoHistory
    /\ directory_files \in FileLists
    /\ parts_to_edit \in Selections
    /\ preprocessed_prompt = <<>>
    /\ filtered_prompt = NotRun
    /\ filter_pc = "input"
    /\ main_frame = NoMain
    /\ assistant_response = NoResponse
    /\ checkpoint_dir = NoCheckpoint
    /\ config_toml = NoConfigFile

\* XmlParser::filter_preprocessed_prompt on the Chunker's output.
FilterChunkSet ==
    /\ filter_pc = "input"
    /\ preprocessed_prompt' = combine_text_files(directory_files, chunk_size)
    /\ filtered_prompt' =
         XmlParser_filter_preprocessed_prompt(preprocessed_prompt', parts_to_edit)
    /\ filter_pc' = "parser"
    /\ UNCHANGED <<directory_files, parts_to_edit>>
    /\ UNCHANGED <<contents, chunk_size, supplied, overflow_checks, fn_pc, chunked, merged>>
    /\ UNCHANGED run_vars
    /\ UNCHANGED <<main_frame, assistant_response, checkpoint_dir, config_toml>>

\* filter_preprocessed_prompt of main.rs on the Chunker's output.
FilterChunkSetMain ==
    /\ filter_pc = "input"
    /\ preprocessed_prompt' = combine_text_files(directory_files, chunk_size)
    /\ filtered_prompt' = filter_preprocessed_prompt(preprocessed_prompt', parts_to_edit)
    /\ filter_pc' = "main"
    /\ UNCHANGED <<directory_files, parts_to_edit>>
    /\ UNCHANGED <<contents, chunk_size, supplied, overflow_checks, fn_pc, chunked, merged>>
    /\ UNCHANGED run_vars
    /\ UNCHANGED <<main_frame, assistant_response, checkpoint_dir, config_toml>>

\* The pipeline of main: the Chunker's output goes to the preprocessor, the
\* selection is parsed from its response, and the response is filtered by it.
Pipeline ==
    /\ filter_pc = "input"
    /\ \E response \in PreprocessorResponses(directory_files, chunk_size) :
         /\ preprocessed_prompt' = response
         /\ parts_to_edit' = parse_parts_to_edit(response)
         /\ filtered_prompt' = filter_preprocessed_prompt(response, parts_to_edit')
    /\ filter_pc' = "pipeline"
    /\ UNCHANGED directory_files
    /\ UNCHANGED <<contents, chunk_size, supplied, overflow_checks, fn_pc, chunked, merged>>
    /\ UNCHANGED run_vars
    /\ UNCHANGED <<main_frame, assistant_response, checkpoint_dir, config_toml>>

NextFilter == FilterChunkSet \/ FilterChunkSetMain \/ Pipeline

SpecFilter == InitFilter /\ [][NextFilter]_vars

\* ------------------------------------------------------- the wire formats
\* The patches a response carries: the fields of CodeAssistantResponse.
PatchParts ==
    {<<[part_id |-> 1, content |-> <<"X">>]>>,
     <<[part_id |-> 2, content |-> <<"X">>]>>,
     <<[part_id |-> 1, content |-> <<"X">>], [part_id |-> 2, content |-> <<"X">>]>>}
UpdatedFiles == {<<>>} \cup {<<[file_path |-> P_SHORT, parts |-> ps]>> : ps \in PatchParts}
NewFiles == {<<>>} \cup {<<[file_path |-> p, content |-> <<"X">>]>> : p \in RespPaths}
Patches ==
    {[updated_files |-> u, new_files |-> n, response |-> r] :
        u \in UpdatedFiles, n \in NewFiles, r \in {<<>>, <<"R">>}}

\* The part elements of an updated file, as the tag format spells them.
RECURSIVE TagParts(_)
TagParts(parts_list) ==
    IF parts_list = <<>> THEN <<>>
    ELSE <<StartPartEv(Head(parts_list).part_id),
           CDataEv(Head(parts_list).content),
           EndEv("part")>> \o TagParts(Tail(parts_list))

\* The patch in the tag format, as the events the reader yields for it:
\* <file path parts><part id>..</part></file>, <new_file path parts><part
\* id>..</part></new_file>, <response>..</response>.
TagEvents(patch) ==
    (IF patch.updated_files = <<>> THEN <<>>
     ELSE LET u == patch.updated_files[1]
          IN  <<StartFileEv(u.file_path, [has |-> TRUE, ids |-> <<Len(u.parts)>>])>>
              \o TagParts(u.parts) \o <<EndEv("file")>>)
    \o (IF patch.new_files = <<>> THEN <<>>
        ELSE LET n == patch.new_files[1]
             IN  <<[StartFileEv(n.file_path, [has |-> TRUE, ids |-> <<1>>])
                      EXCEPT !.name = "new_file"],
                   StartPartEv(1), CDataEv(n.content), EndEv("part"),
                   EndEv("new_file")>>)
    \o (IF patch.response = <<>> THEN <<>>
        ELSE <<StartEv("response"), CDataEv(patch.response), EndEv("response")>>)

\* The patch as a JSON object with the keys updated_files, new_files and
\* response.
RECURSIVE JsonParts(_)
JsonParts(parts_list) ==
    IF parts_list = <<>> THEN <<>>
    ELSE <<"{", "part_id", DigitOf[Head(parts_list).part_id], "content">>
         \o Head(parts_list).content \o <<"}">> \o JsonParts(Tail(parts_list))

JsonText(patch) ==
    <<"{", "updated_files", "[">>
    \o (IF patch.updated_files = <<>> THEN <<>>
        ELSE <<"{", "file_path">> \o patch.updated_files[1].file_path
             \o <<"parts", "[">> \o JsonParts(patch.updated_files[1].parts)
             \o <<"]", "}">>)
    \o <<"]", "new_files", "[">>
    \o (IF patch.new_files = <<>> THEN <<>>
        ELSE <<"{", "file_path">> \o patch.new_files[1].file_path
             \o <<"content">> \o patch.new_files[1].content \o <<"}">>)
    \o <<"]", "response">> \o patch.response \o <<"}">>

\* The events the reader yields for the response: a JSON object holds no
\* tag, so it is one text.
WireEvents(format, patch) ==
    IF format = "tags" THEN TagEvents(patch) ELSE <<TextEv(JsonText(patch))>>

\* What process_file holds at its start.
NewScan(tree, staged) ==
    [parser |-> NewParser, fs |-> tree, code |-> staged, response_txt |-> Absent,
     saved_files |-> 0, failed |-> FALSE]

\* One pass of process_file's loop.
process_event(st, e, originals, size, auto_mode) ==
    IF st.failed THEN st
    ELSE CASE e.kind = "start" /\ e.name \in {"file", "new_file"} ->
                [st EXCEPT !.parser = handle_file_start(@, e.path, e.parts)]
           [] e.kind = "start" /\ e.name = "part" ->
                [st EXCEPT !.parser = handle_part_start(@, e.id)]
           [] e.kind = "start" /\ e.name = "response" ->
                [st EXCEPT !.parser = [@ EXCEPT !.in_response_tag = TRUE,
                                                !.current_parts = <<EmptyPart(0)>>]]
           [] e.kind \in {"text", "cdata"} ->
                [st EXCEPT !.parser = handle_text(@, e.text)]
           [] e.kind = "end" /\ e.name = "file" /\ st.parser.current_path # NonePath ->
                LET path == st.parser.current_path
                    original_file_path == resolve(originals, path)
                IN  IF st.fs[original_file_path] = Absent
                    THEN [st EXCEPT !.failed = TRUE,
                                    !.parser = [@ EXCEPT !.current_path = NonePath]]
                    ELSE LET m == merge_file(st.fs[original_file_path], size,
                                             st.parser.current_parts)
                             done == [st EXCEPT
                                        !.parser = [@ EXCEPT !.current_path = NonePath,
                                                             !.current_parts = <<>>],
                                        !.saved_files = @ + 1]
                         IN  IF auto_mode
                             THEN [done EXCEPT !.fs[original_file_path] = m.new_content]
                             ELSE [done EXCEPT !.code[path] = m.new_content]
           [] e.kind = "end" /\ e.name = "new_file" /\ st.parser.current_path # NonePath ->
                [st EXCEPT !.fs[st.parser.current_path] = JoinedParts(st.parser.current_parts),
                           !.parser = [@ EXCEPT !.current_path = NonePath,
                                                !.current_parts = <<>>],
                           !.saved_files = @ + 1]
           [] e.kind = "end" /\ e.name = "response" ->
                LET text == JoinedParts(st.parser.current_parts)
                IN  [st EXCEPT !.parser = [@ EXCEPT !.in_response_tag = FALSE,
                                                    !.response_txt_content = text,
                                                    !.current_parts = <<>>],
                               !.response_txt = IF text # <<>> THEN text ELSE @]
           [] OTHER -> st

\* XmlParser::process_file on the events of a response.
RECURSIVE process_file(_, _, _, _, _)
process_file(st, events, originals, size, auto_mode) ==
    IF events = <<>> THEN st
    ELSE process_file(process_event(st, Head(events), originals, size, auto_mode),
                      Tail(events), originals, size, auto_mode)

\* save_individual_files has read the originals and holds the response.
InitFormats ==
    /\ contents = <<>>
    /\ supplied = <<>>
    /\ overflow_checks = FALSE
    /\ fn_pc = "off"
    /\ chunked = NotRun
    /\ merged = NotRun
    /\ chunk_size \in RunChunkSizes
    /\ original_paths \in BackupPathLists
    /\ fs = InitialFs
    /\ out_dir = [exists |-> TRUE, response_txt |-> Absent,
                  code |-> [p \in RespPaths |-> Absent]]
    /\ rollback_dir = [NoRollbackDir EXCEPT !.exists = TRUE]
    /\ pc = "scan"
    /\ auto \in BOOLEAN
    /\ original_contents =
         [i \in 1..Len(original_paths) |->
            [path |-> original_paths[i], content |-> InitialFs[original_paths[i]]]]
    /\ parser = NewParser
    /\ saved_files = 0
    /\ open_tags = <<>>
    /\ n_events = 0
    /\ runs = MaxRuns
    /\ hist = Started(NoHistory)
    /\ FilterOff
    /\ main_frame = NoMain
    /\ \E format \in {"tags", "structured"}, patch \in Patches :
         assistant_response = [format |-> format, applied |-> FALSE, patch |-> patch]
    /\ checkpoint_dir = NoCheckpoint
    /\ config_toml = NoConfigFile

\* let mut xml_parser = XmlParser::new(); xml_parser.process_file(response, ..)?
ApplyResponse ==
    /\ pc = "scan"
    /\ ~assistant_response.applied
    /\ LET st == process_file(NewScan(fs, out_dir.code),
                              WireEvents(assistant_response.format,
                                         assistant_response.patch),
                              original_paths, chunk_size, auto)
       IN  /\ fs' = st.fs
           /\ out_dir' = [out_dir EXCEPT !.code = st.code,
                                         !.response_txt = st.response_txt]
           /\ parser' = st.parser
           /\ saved_files' = st.saved_files
           /\ pc' = IF st.failed THEN "idle" ELSE "finalize"
           /\ hist' = IF st.failed THEN Finished(hist, "run_err") ELSE hist
    /\ assistant_response' = [assistant_response EXCEPT !.applied = TRUE]
    /\ UNCHANGED <<contents, chunk_size, supplied, overflow_checks, fn_pc, chunked, merged>>
    /\ UNCHANGED filter_vars
    /\ UNCHANGED <<main_frame, checkpoint_dir, config_toml>>
    /\ UNCHANGED <<original_paths, rollback_dir, auto, original_contents, open_tags,
                   n_events, runs>>

\* CliDisplayManager::print_footer(new_files, saved_files, duration): the
\* counts its "Created" and "Modified" lines show.
print_footer(new_files, saved) ==
    [created |-> saved, modified |-> saved]

NextFormats == ApplyResponse \/ Finalize

SpecFormats == InitFormats /\ [][NextFormats]_vars

\* ------------------------------------------------------- the checkpoints
MaxCheckpoints == 2

\* The directories of the working tree, and the files in a fixed order.
Dir_d == <<"d">>
Dir_e == <<"e">>
WorkFiles == <<P_A, P_A2, P_SHORT, P_N>>

\* The paths a checkpoint is asked for.
CheckpointArgs == {<<Dir_d>>, <<Dir_d, Dir_e>>, <<P_A2, P_SHORT>>, <<P_N>>}

\* The path is the directory or lies under it.
Within(path, dir) ==
    \/ path = dir
    \/ /\ Len(path) > Len(dir) + 1
       /\ SubSeq(path, 1, Len(dir)) = dir
       /\ path[Len(dir) + 1] = "/"

\* The files of the tree a list of paths expands to: a file stands for
\* itself, a directory for the files it contains.
expand(paths, tree) ==
    SelectSeq(WorkFiles,
              LAMBDA f : /\ tree[f] # Absent
                         /\ \E i \in 1..Len(paths) : Within(f, paths[i]))

\* A checkpoint that writes into the backup area as it finds it.
remove_backup_area_skipped(area) == area

\* The old backup area is deleted first.
remove_backup_area(area) == [n \in DOMAIN area |-> Absent]

\* Every file is copied into the backup area under its backup name.
RECURSIVE copy_to_backups(_, _, _)
copy_to_backups(area, files, tree) ==
    IF files = <<>> THEN area
    ELSE copy_to_backups([area EXCEPT ![backup_name(Head(files))] = tree[Head(files)]],
                         Tail(files), tree)

\* Every backup of the record is copied back to its original path.
RECURSIVE copy_back(_, _, _)
copy_back(tree, area, pairs) ==
    IF pairs = <<>> THEN tree
    ELSE copy_back([tree EXCEPT ![Head(pairs)[1]] = area[Head(pairs)[2]]],
                   area, Tail(pairs))

\* The tool is idle: no run, no checkpoint yet.
InitCheckpoint ==
    /\ contents = <<>>
    /\ supplied = <<>>
    /\ overflow_checks = FALSE
    /\ fn_pc = "off"
    /\ chunked = NotRun
    /\ merged = NotRun
    /\ chunk_size \in RunChunkSizes
    /\ original_paths = <<>>
    /\ fs = InitialFs
    /\ out_dir = [exists |-> FALSE, response_txt |-> Absent,
                  code |-> [p \in RespPaths |-> Absent]]
    /\ rollback_dir = NoRollbackDir
    /\ pc = "idle"
    /\ auto = FALSE
    /\ original_contents = <<>>
    /\ parser = NewParser
    /\ saved_files = 0
    /\ open_tags = <<>>
    /\ n_events = 0
    /\ runs = 0
    /\ hist = NoHistory
    /\ FilterOff
    /\ main_frame = NoMain
    /\ assistant_response = NoResponse
    /\ checkpoint_dir = NoCheckpoint
    /\ config_toml = NoConfigFile

\* What the checkpoint commands and an edit leave alone.
CheckpointFrame ==
    /\ UNCHANGED <<contents, chunk_size, supplied, overflow_checks, fn_pc, chunked, merged>>
    /\ UNCHANGED filter_vars
    /\ UNCHANGED <<main_frame, assistant_response, config_toml>>
    /\ UNCHANGED <<original_paths, out_dir, rollback_dir, pc, auto, original_contents,
                   parser, saved_files, open_tags, n_events, runs>>

\* checkpoint(paths)
Checkpoint ==
    /\ pc = "idle"
    /\ hist.checkpoints < MaxCheckpoints
    /\ \E paths \in CheckpointArgs :
         LET files == expand(paths, fs)
         IN  /\ files # <<>>
             /\ checkpoint_dir' =
                  [exists |-> TRUE,
                   files |-> copy_to_backups(remove_backup_area(checkpoint_dir.files),
                                             files, fs),
                   checkpoint_files |->
                       [i \in 1..Len(files) |-> <<files[i], backup_name(files[i])>>]]
             /\ hist' = Finished([hist EXCEPT
                                    !.checkpoint_tree = fs,
                                    !.covered = {files[i] : i \in 1..Len(files)},
                                    !.edited = {},
                                    !.checkpoints = @ + 1],
                                 "checkpoint")
    /\ UNCHANGED fs
    /\ CheckpointFrame

\* A file of the tree is rewritten, created or deleted by its owner.
ModifyFile ==
    /\ pc = "idle"
    /\ \E p \in WorkPaths, text \in {<<"X">>, Absent} :
         /\ fs[p] # text
         /\ fs' = [fs EXCEPT ![p] = text]
         /\ hist' = Finished([hist EXCEPT !.edited = @ \cup {p}], "modify")
    /\ UNCHANGED checkpoint_dir
    /\ CheckpointFrame

\* revert(): without a record there is nothing to revert to.
Revert ==
    /\ pc = "idle"
    /\ IF ~checkpoint_dir.exists
       THEN /\ hist' = Finished(hist, "revert_err")
            /\ UNCHANGED fs
       ELSE /\ fs' = copy_back(fs, checkpoint_dir.files, checkpoint_dir.checkpoint_files)
            /\ hist' = Finished(hist, "revert")
    /\ UNCHANGED checkpoint_dir
    /\ CheckpointFrame

NextCheckpoint == Checkpoint \/ ModifyFile \/ Revert

SpecCheckpoint == InitCheckpoint /\ [][NextCheckpoint]_vars

\* ------------------------------------------------------------------ claims
\* The parts the Chunker shows for the file (a build without overflow checks).
ShownParts == read_and_format_file(contents, chunk_size, FALSE).parts

\* The positions of the supplied list that carry part id i.
SuppliedAt(i) == {k \in 1..Len(supplied) : supplied[k].part_id = i}

\* The number of "\n" in a text.
CountNL(text) == Cardinality({i \in 1..Len(text) : text[i] = NL})

\* The originals of the runs.
Originals == {original_paths[i] : i \in 1..Len(original_paths)}

\* The record on disk.
Record == rollback_dir.files[TomlName]

\* The record on disk was written by the run under way (or the last one) and
\* holds, for path p, a backup with the text p had when the run started.
SnapshotCovers(p) ==
    /\ hist.record_run = runs
    /\ Record.kind = "toml"
    /\ \E k \in 1..Len(Record.rollback_files) :
         /\ Record.rollback_files[k][1] = p
         /\ rollback_dir.files[Record.rollback_files[k][2]] = TextEntry(hist.pre_run[p])

\* C1 (as claimed): whenever a run in auto mode has changed an original on
\* disk, the rollback record of that run and the backup of the file's pre-run
\* text are already on disk.
C1_SnapshotBeforeFirstWrite ==
    \A p \in Originals :
        (pc \in {"scan", "finalize"} /\ auto /\ fs[p] # hist.pre_run[p]) =>
            SnapshotCovers(p)

\* C2 (as claimed): a rollback after a completed auto-mode run that modified
\* an existing file and created a new file restores the modified file to its
\* pre-run text, removes the created file and deletes the rollback directory.
C2_RollbackRestoresAndRemoves ==
    (/\ pc = "idle"
     /\ hist.last_op = "rollback_ok"
     /\ hist.prev_op = "run_ok"
     /\ auto
     /\ hist.modified \cap Originals # {}
     /\ hist.created # {}) =>
        /\ \A p \in hist.modified \cap Originals : fs[p] = hist.pre_run[p]
        /\ \A p \in hist.created : fs[p] = Absent
        /\ ~rollback_dir.exists

\* C3 (as claimed): a run whose scan hit a reader error ends in failure, and
\* has written no file: nothing counted as saved, the working tree as it was
\* before the run, no response.txt.
C3_ParseErrorWritesNothing ==
    (pc = "idle" /\ hist.saw_error /\ hist.last_op \in {"run_ok", "run_err"}) =>
        /\ hist.last_op = "run_err"
        /\ saved_files = 0
        /\ fs = hist.pre_run
        /\ out_dir.response_txt = Absent

\* C4 (as claimed): a run in which a file end named a path with no file to
\* read still completes and writes its rollback record.
C4_UnresolvedPathSkipsOnlyThatFile ==
    (pc = "idle" /\ hist.unresolved /\ hist.last_op \in {"run_ok", "run_err"}) =>
        /\ hist.last_op = "run_ok"
        /\ hist.record_run = runs
        /\ Record.kind = "toml"

\* The part elements of a construct's body that carry an id, as parts: the
\* id the attribute spells (0 when it spells no number) and the body.
BodyAsParts(body) ==
    LET with_id == SelectSeq(body, LAMBDA b : ~b.bare /\ b.id_attr.has)
    IN  [i \in 1..Len(with_id) |->
           [part_id |-> IF with_id[i].id_attr.parses THEN with_id[i].id_attr.value ELSE 0,
            content |-> with_id[i].content]]

\* The open tags without the innermost one.
Popped == SubSeq(open_tags, 1, Len(open_tags) - 1)

\* C11 (as claimed): whenever the end of a file construct with a path may
\* come next, the parts the parser holds for it are exactly the part elements
\* read in its body; the attributes of the file tag contributed none.
C11_PartsOnlyFromBody ==
    (pc = "scan" /\ TopTag = "file" /\ parser.current_path # NonePath) =>
        parser.current_parts = BodyAsParts(hist.body_parts)

\* The step reads a part tag, directly under a file or new_file tag and
\* outside a commentary construct, whose id attribute spells no number.
ReadsBadIdPart ==
    /\ pc = "scan"
    /\ open_tags' = Append(open_tags, "part")
    /\ ~parser.in_response_tag
    /\ Len(hist'.body_parts) = Len(hist.body_parts) + 1
    /\ LET id_attr == hist'.body_parts[Len(hist'.body_parts)].id_attr
       IN  id_attr.has /\ ~id_attr.parses

\* The step ends a file construct and writes its merged content.
WritesUpdatedFile ==
    /\ pc = "scan"
    /\ pc' = "scan"
    /\ TopTag = "file"
    /\ open_tags' = Popped
    /\ parser.current_path # NonePath

HoldsCommentary(text) ==
    \E i \in 1..Len(text) : \E c \in CommentaryTexts : text[i] = c[1]

\* C13 (as claimed): no file of the working tree and no staged file holds
\* text of a commentary construct.
C13_CommentaryOnlyInResponseTxt ==
    /\ \A p \in DOMAIN fs : ~HoldsCommentary(fs[p])
    /\ \A p \in DOMAIN out_dir.code : ~HoldsCommentary(out_dir.code[p])

\* What a construct's body carries: the bodies of its part elements, or
\* all the texts read inside it, joined.
CarriedContents(body) ==
    {JoinedParts(SelectSeq(body, LAMBDA b : ~b.bare)), JoinedParts(body)}

\* C16 (as claimed): the end of a new_file construct with a path, one that
\* lies in no other construct and holds none, writes, at that path and
\* nowhere else, the content that construct carries and nothing else.
C16_NewFileHoldsItsOwnContent ==
    [][(/\ pc = "scan"
        /\ open_tags = <<"new_file">>
        /\ open_tags' = <<>>
        /\ hist.body_tag = "new_file"
        /\ hist.body_path # NoAttr) =>
            /\ fs'[hist.body_path] \in CarriedContents(hist.body_parts)
            /\ \A q \in DOMAIN fs : q # hist.body_path => fs'[q] = fs[q]]_vars

\* The step is an invocation of rollback.
RollbackStep == pc = "idle" /\ pc' = "idle" /\ runs' = runs

\* C20 (as claimed): a rollback invoked when no record is on disk ends with
\* the "no changes to rollback" error and changes nothing on disk.
C20_NoRecordNoChanges ==
    [][(RollbackStep /\ (~rollback_dir.exists \/ Record.kind = "absent")) =>
            /\ hist'.last_op = "no_changes"
            /\ fs' = fs
            /\ rollback_dir' = rollback_dir
            /\ out_dir' = out_dir]_vars

\* The file end handler wrote a file of the tree.
FileEndWrites ==
    /\ pc = "scan" /\ open_tags = <<"file">> /\ open_tags' = <<>>
    /\ parser.current_path # NonePath
    /\ saved_files' = saved_files + 1

\* C14. In resolving the path of an updated-file construct, an original path
\* equal to the response path wins over one that merely ends with it, whatever
\* the order of the list: when the list holds the response path itself, the
\* content merged and written is that of the file at the response path, and
\* in auto mode that file is the one overwritten.
C14_ExactMatchFirst ==
    [][(FileEndWrites
        /\ \E i \in 1..Len(original_paths) : original_paths[i] = parser.current_path) =>
           LET path == parser.current_path
               m == merge_file(fs[Locate(path)], chunk_size, parser.current_parts)
               target == output_file_path(auto, path, path)
           IN  /\ fs[Locate(path)] # Absent
               /\ fs'[Locate(target)] = m.new_content]_vars

\* The located file lies under output_directory/code.
UnderStaging(f) ==
    LET root == Locate(path_join(OutputDirectory, Str_code))
    IN  Len(f) > Len(root) /\ SubSeq(f, 1, Len(root)) = root

\* C15. An updated-file construct writes, in auto mode, its merged content to
\* the resolved original path and, in staged mode, only to a file under
\* output_directory/code, leaving every original file as it was, for every
\* response path.
C15_StagedWritesStayInStaging ==
    [][FileEndWrites =>
           LET path == parser.current_path
               original_file_path == resolve(original_paths, path)
               m == merge_file(fs[Locate(original_file_path)], chunk_size,
                               parser.current_parts)
           IN  IF auto
               THEN fs' = [fs EXCEPT ![Locate(original_file_path)] = m.new_content]
               ELSE /\ \A f \in Tree : fs'[f] # fs[f] => UnderStaging(f)
                    /\ \A i \in 1..Len(original_paths) :
                         fs'[Locate(original_paths[i])] = fs[Locate(original_paths[i])]]_vars

\* C23. In a pipeline run no source file is created, modified or deleted
\* before both service calls have returned successfully and the output
\* directory exists, and a run that ends with a service error, a
\* selection-parse error or a failure to create the output directory leaves
\* every source file with its pre-run content.
C23_NoMutationBeforeSave ==
    /\ fs # InitialFs =>
          /\ main_frame.pc = "save"
          /\ main_frame.preprocessed
          /\ main_frame.responded
          /\ out_dir.exists
    /\ main_frame.result \in {"preprocessor_error", "assistant_error", "parse_error",
                              "output_dir_error"} =>
          fs = InitialFs

\* A run that used its retries up on the second service call and ended with
\* that call's error, the source files as they were.
C23_Witness ==
    /\ main_frame.result = "assistant_error"
    /\ main_frame.preprocessed
    /\ main_frame.assistant_calls > 1
    /\ fs = InitialFs

\* C24. A service call that fails on every attempt is attempted
\* config.retries + 1 times before its error ends the run, and no call is
\* attempted more often than that.
C24_EachCallGetsConfiguredRetries ==
    /\ main_frame.result = "preprocessor_error" =>
          main_frame.preprocessor_calls = main_frame.config_retries + 1
    /\ main_frame.result = "assistant_error" =>
          main_frame.assistant_calls = main_frame.config_retries + 1
    /\ main_frame.preprocessor_calls <= main_frame.config_retries + 1
    /\ main_frame.assistant_calls <= main_frame.config_retries + 1

\* The listed files within the byte ceiling, in order.
WithinCeiling ==
    LET Keep(i) == main_frame.metadata_len[i] <= MAX_FILE_SIZE
        RECURSIVE From(_)
        From(i) == IF i > Len(original_paths) THEN <<>>
                   ELSE (IF Keep(i) THEN <<original_paths[i]>> ELSE <<>>) \o From(i + 1)
    IN  From(1)

\* C25. A listed file above the 10 MiB ceiling is fatal to that file only:
\* once the files are combined, the chunk set holds every other listed file.
C25_TooLargeFileFatalToItselfOnly ==
    (/\ main_frame.pc \notin {"off", "combine"}
     /\ \E i \in 1..Len(original_paths) : main_frame.metadata_len[i] > MAX_FILE_SIZE) =>
        /\ main_frame.pc # "returned"
        /\ main_frame.output_file_text = WithinCeiling

\* C26. A patch in the structured format and the same patch in the tag
\* format are applied alike: whatever the wire format of the response, the
\* files on disk, the staged files and response.txt after it was applied
\* are those the tag format of its patch gives.
C26_BothFormatsApplyAlike ==
    assistant_response.applied =>
        LET st == process_file(NewScan(InitialFs, [p \in RespPaths |-> Absent]),
                               TagEvents(assistant_response.patch),
                               original_paths, chunk_size, auto)
        IN  /\ fs = st.fs
            /\ out_dir.code = st.code
            /\ out_dir.response_txt = st.response_txt

\* C38. The count the apply step returns is the number of updated-file
\* constructs whose result was written plus the number of new-file constructs
\* written, and what is reported of it are two counts: the modified files and
\* the newly created files, each on its own.
C38_CountsOfModifiedAndCreated ==
    (assistant_response.applied /\ assistant_response.format = "tags"
     /\ hist.last_op # "run_err") =>
        LET updated == Len(assistant_response.patch.updated_files)
            created == Len(assistant_response.patch.new_files)
        IN  /\ saved_files = updated + created
            /\ \A new_files \in 0..saved_files :
                  print_footer(new_files, saved_files)
                    = [created |-> created, modified |-> updated]

\* The backups the backup area holds.
BackupsHeld(area) == {n \in DOMAIN area.files : area.files[n] # Absent}

\* C27. A revert restores every file of the last checkpoint to its content
\* at checkpoint time, whatever was done to the files since, leaves the
\* other files alone and keeps the backup area and the record, so that it
\* can be repeated; a checkpoint replaces the one before it wholesale: the
\* backup area then holds the backups of the files of this checkpoint and no
\* other, and the record lists those files.
C27_CheckpointRevert ==
    [][/\ hist'.last_op = "revert" =>
             /\ \A p \in hist.covered : fs'[p] = hist.checkpoint_tree[p]
             /\ \A p \in WorkPaths \ hist.covered : fs'[p] = fs[p]
             /\ checkpoint_dir' = checkpoint_dir
       /\ hist'.last_op = "checkpoint" =>
             /\ {checkpoint_dir'.checkpoint_files[i][1] :
                    i \in 1..Len(checkpoint_dir'.checkpoint_files)} = hist'.covered
             /\ Cardinality(BackupsHeld(checkpoint_dir')) = Cardinality(hist'.covered)
             /\ \A i \in 1..Len(checkpoint_dir'.checkpoint_files) :
                   checkpoint_dir'.files[checkpoint_dir'.checkpoint_files[i][2]]
                     = fs[checkpoint_dir'.checkpoint_files[i][1]]]_vars

\* After a second checkpoint of two files every one of them was modified,
\* and a revert, repeated, gave them their content at checkpoint time back.
C27_Witness ==
    /\ hist.last_op = "revert"
    /\ hist.prev_op = "revert"
    /\ hist.checkpoints = 2
    /\ Cardinality(hist.covered) = 2
    /\ hist.covered \subseteq hist.edited
    /\ \A p \in hist.covered : fs[p] = hist.checkpoint_tree[p]

\* C28. When an auto run changed two originals of one file name in different
\* directories, the rollback that follows gives each of them its own pre-run
\* text back.
C28_SameNameBackupsKeptApart ==
    (/\ pc = "idle"
     /\ auto
     /\ hist.last_op = "rollback_ok"
     /\ hist.prev_op = "run_ok"
     /\ {P_A, P_A2} \subseteq hist.modified) =>
        /\ fs[P_A] = hist.pre_run[P_A]
        /\ fs[P_A2] = hist.pre_run[P_A2]

\* C29. In auto mode the file the Applier reads and overwrites for an
\* updated-file construct is one of the known original paths, also when the
\* response path matches none of them.
C29_AutoOverwritesOnlyOriginals ==
    [][(FileEndWrites /\ auto) =>
           LET path == parser.current_path
               original_file_path == resolve(original_paths, path)
           IN  \E i \in 1..Len(original_paths) :
                 Locate(original_paths[i]) = Locate(original_file_path)]_vars

\* What the filter is to keep of one chunked file: its element with the
\* selected parts, nothing when no part of it is selected.
KeptOfFile(file, size, selection) ==
    LET shown == read_and_format_file(file.contents, size, FALSE)
        ids == IF file.path \in DOMAIN selection THEN selection[file.path] ELSE <<>>
        IsSelected(part) == \E k \in 1..Len(ids) : ids[k] = part.part_id
        kept == SelectSeq(shown.parts, IsSelected)
    IN  IF kept = <<>> THEN <<>>
        ELSE <<StartFileEv(file.path, [has |-> TRUE, ids |-> <<shown.num_parts>>])>>
             \o PartEvents(kept) \o <<EndEv("file")>>

RECURSIVE KeptOfFiles(_, _, _)
KeptOfFiles(paths, size, selection) ==
    IF paths = <<>> THEN <<>>
    ELSE KeptOfFile(Head(paths), size, selection)
         \o KeptOfFiles(Tail(paths), size, selection)

\* The events without the file elements that hold nothing.
RECURSIVE StripEmptyFiles(_)
StripEmptyFiles(events) ==
    IF Len(events) < 2 THEN events
    ELSE IF /\ events[1].kind = "start" /\ events[1].name = "file"
            /\ events[2].kind = "end" /\ events[2].name = "file"
    THEN StripEmptyFiles(SubSeq(events, 3, Len(events)))
    ELSE <<events[1]>> \o StripEmptyFiles(Tail(events))

\* A filter was applied to the Chunker's output.
Filtered == filter_pc \in {"parser", "main"}

\* C17. The filter's output holds, for each chunked file that is a key of the
\* selection, only the selected parts, in their order and as balanced part
\* elements; no content of an unselected part and nothing of a file that is
\* not a key appears in it (file elements left empty are C18's subject).
C17_FilterKeepsOnlySelectedParts ==
    Filtered =>
        /\ ~filtered_prompt.panic
        /\ StripEmptyFiles(filtered_prompt.out)
             = KeptOfFiles(directory_files, chunk_size, parts_to_edit)

\* The file is a key of the selection and none of the selected ids is a part
\* of it.
NothingSelected(file) ==
    /\ file.path \in DOMAIN parts_to_edit
    /\ LET n == Len(read_and_format_file(file.contents, chunk_size, FALSE).parts)
           ids == parts_to_edit[file.path]
       IN  \A k \in 1..Len(ids) : ids[k] \notin 1..n

\* C18. A known file whose selection is empty, or holds only ids the file
\* does not have, leaves no element at all in the filter's output.
C18_EmptySelectionDropsFile ==
    Filtered =>
        \A i \in 1..Len(directory_files) :
            NothingSelected(directory_files[i]) =>
                \A k \in 1..Len(filtered_prompt.out) :
                    filtered_prompt.out[k].path # directory_files[i].path

\* The events carry the part of the file with the content.
Carries(events, path, id, content) ==
    \E j, k \in 1..Len(events) :
        /\ j < k /\ k < Len(events)
        /\ events[j].kind = "start" /\ events[j].name = "file" /\ events[j].path = path
        /\ \A l \in (j + 1)..k : ~(events[l].kind = "end" /\ events[l].name = "file")
        /\ events[k].kind = "start" /\ events[k].name = "part"
        /\ events[k].id.parses /\ events[k].id.value = id
        /\ events[k + 1].kind \in {"cdata", "text"}
        /\ events[k + 1].text = content

\* C19. In a pipeline run the payload of the second request carries, for
\* every file and part id of the selection parsed from the first response
\* that exists, that part's content as the Chunker made it from the file.
C19_PayloadIsFilteredChunkSet ==
    filter_pc = "pipeline" =>
        \A i \in 1..Len(directory_files) :
            LET file == directory_files[i]
                shown == read_and_format_file(file.contents, chunk_size, FALSE).parts
            IN  file.path \in DOMAIN parts_to_edit =>
                    \A k \in 1..Len(parts_to_edit[file.path]) :
                        LET id == parts_to_edit[file.path][k]
                        IN  id \in 1..Len(shown) =>
                                Carries(filtered_prompt.out, file.path, id, shown[id].cdata)

\* C21. A successful rollback removes the rollback directory and its record,
\* and a rollback that follows it with no run in between reports that there
\* are no changes to roll back and changes no file.
C21_RecordConsumedOnce ==
    [][RollbackStep =>
          /\ hist'.last_op = "rollback_ok" =>
                /\ ~rollback_dir'.exists
                /\ \A n \in DOMAIN rollback_dir'.files :
                      rollback_dir'.files[n].kind = "absent"
          /\ hist.last_op = "rollback_ok" =>
                /\ hist'.last_op = "no_changes"
                /\ fs' = fs /\ out_dir' = out_dir /\ rollback_dir' = rollback_dir]_vars

\* A rollback restored a modified original, and the rollback after it found
\* nothing to roll back.
C21_Witness ==
    /\ hist.last_op = "no_changes"
    /\ hist.prev_op = "rollback_ok"
    /\ hist.modified # {}
    /\ ~rollback_dir.exists

\* C22. When the list of files handed to the save holds a path that does not
\* exist on disk, the save does not fail on it: it goes on to apply the
\* response (and records the path at its end).
C22_MissingOriginalIsRecorded ==
    [][(pc = "idle" /\ runs' = runs + 1
        /\ \E i \in 1..Len(original_paths) : fs[original_paths[i]] = Absent) =>
           pc' = "scan"]_vars

\* C30. The accumulated part list is empty whenever a file or new_file
\* construct begins at the top level of the response, so that a part read
\* outside any construct, or in a construct without a path, never reaches a
\* later construct's file.
C30_PartsEmptyAtConstructStart ==
    [][(pc = "scan" /\ open_tags = <<>>
        /\ open_tags' \in {<<"file">>, <<"new_file">>}) =>
           parser.current_parts = <<>>]_vars

\* The record on disk restores path p: it pairs p with a backup that exists.
RestoredByRecord(p) ==
    /\ Record.kind = "toml"
    /\ \E k \in 1..Len(Record.rollback_files) :
         /\ Record.rollback_files[k][1] = p
         /\ rollback_dir.files[Record.rollback_files[k][2]].kind # "absent"

\* The last run, finished or aborted, left path p with another text than it
\* had when the run started.
LastRunModified(p) == fs[p] # hist.pre_run[p]

\* C31. After any sequence of runs, a successful rollback restores each file
\* it restores to the text the file had right before the most recent run that
\* modified it, and the record it applies is the record of that run, never
\* one left on disk by an earlier run.
C31_RollbackUndoesLatestRun ==
    [][(RollbackStep /\ hist'.last_op = "rollback_ok") =>
          \A p \in DOMAIN fs :
              (RestoredByRecord(p) /\ LastRunModified(p)) =>
                  /\ fs'[p] = hist.pre_run[p]
                  /\ hist.record_run = runs]_vars

\* C32. A rollback that fails on an I/O error while it deletes a new file or
\* copies a backup leaves the rollback directory, its backups and its record
\* on disk as they were, so that rollback can be invoked again; the directory
\* is removed only by a rollback all of whose deletions and restores succeeded.
C32_FailedRollbackKeepsDirectory ==
    [][RollbackStep =>
          /\ hist'.last_op = "rollback_io_err" =>
                /\ rollback_dir' = rollback_dir
                /\ rollback_dir'.exists
                /\ rollback_dir'.files[TomlName].kind = "toml"
          /\ rollback_dir' # rollback_dir =>
                /\ hist'.last_op = "rollback_ok"
                /\ \A k \in 1..Len(Record.new_files) : fs'[Record.new_files[k]] = Absent
                /\ \A p \in DOMAIN fs : RestoredByRecord(p) =>
                      \E k \in 1..Len(Record.rollback_files) :
                          /\ Record.rollback_files[k][1] = p
                          /\ fs'[p] = EntryText(rollback_dir.files[Record.rollback_files[k][2]])]_vars

\* A run rewrote both originals, a rollback of it failed on an I/O error, and
\* the rollback invoked again went through and removed the directory.
C32_Witness ==
    /\ hist.last_op = "rollback_ok"
    /\ hist.prev_op = "rollback_io_err"
    /\ ~rollback_dir.exists
    /\ \A p \in Originals : fs[p] # Absent /\ p \in hist.written

\* The step is the end of a run that succeeded: the record was written.
RunSucceeds == pc = "finalize" /\ pc' = "idle" /\ hist'.last_op = "run_ok"

\* The paths the record on disk lists in rollback_files.
ListedInRecord ==
    {Record.rollback_files[k][1] : k \in 1..Len(Record.rollback_files)}

\* C33. The record a successful run writes lists in rollback_files exactly
\* the originals whose text after the apply step differs from their text
\* before it, each paired with a backup that holds the pre-run text; and a
\* rollback leaves every file the record does not list unchanged.
C33_RecordListsExactlyTheModified ==
    [][/\ RunSucceeds =>
            LET record == rollback_dir'.files[TomlName]
            IN  /\ record.kind = "toml"
                /\ {record.rollback_files[k][1] : k \in 1..Len(record.rollback_files)}
                     = {p \in Originals : fs[p] # hist.pre_run[p]}
                /\ \A k \in 1..Len(record.rollback_files) :
                      rollback_dir'.files[record.rollback_files[k][2]]
                        = TextEntry(hist.pre_run[record.rollback_files[k][1]])
       /\ RollbackStep =>
            \A p \in DOMAIN fs : p \notin ListedInRecord => fs'[p] = fs[p]]_vars

\* C34. After any sequence of config and model-config subcommands the
\* configuration on disk passes validation (chunk_size > 0, temperature within
\* 0.0..2.0, an output directory that exists), so that no command that reads
\* it afterwards fails with an invalid-input error.
C34_PersistedConfigStaysValid ==
    /\ config_toml.exists => validate_config(config_toml.config) = "ok"
    /\ main_frame.result # "invalid_input"

\* main is inside a pipeline run, past the reading of the configuration.
InPipelineRun ==
    /\ main_frame.command = "press"
    /\ main_frame.pc \in {"combine", "preprocessor", "parse", "assistant", "mkdir", "save"}

\* C36. In every pipeline run the chunk size handed on is the validated value
\* of the configuration on disk, hence above 0; and a run started while the
\* stored chunk size is 0 is rejected with an invalid-input error before any
\* file is chunked and before any request is sent.
C36_ChunkSizeValidatedBeforeUse ==
    [][/\ InPipelineRun' =>
            /\ chunk_size' > 0
            /\ chunk_size' = config_toml'.config.chunk_size
       /\ (main_frame'.command = "press" /\ main_frame' # main_frame
           /\ CanStart /\ config_toml.exists /\ config_toml.config.chunk_size = 0) =>
            \/ main_frame' = Returned("press", "missing_prompt")
            \/ main_frame' = Returned("press", "invalid_input")]_vars

\* A pipeline run was started while the chunk size on disk was 0, and main
\* returned the invalid-input error with nothing chunked and no request sent.
C36_Witness ==
    /\ main_frame = Returned("press", "invalid_input")
    /\ config_toml.exists
    /\ config_toml.config.chunk_size = 0
    /\ main_frame.output_file_text = <<>>
    /\ main_frame.preprocessor_calls = 0
    /\ main_frame.assistant_calls = 0

\* The service calls of the run that failed, and the retries it consumed.
FailedCalls ==
    (main_frame.preprocessor_calls - (IF main_frame.preprocessed THEN 1 ELSE 0))
    + (main_frame.assistant_calls - (IF main_frame.responded THEN 1 ELSE 0))
ConsumedRetries == main_frame.config_retries - main_frame.retries

\* C35. The two service calls of a run share one retry counter: a run makes
\* at most config.retries + 2 service attempts in all, every failed attempt
\* but the one that ends the run takes one retry from the shared counter, and
\* the code-assistant loop starts with what the preprocessor loop left.
C35_SharedRetryBudget ==
    main_frame.pc \in {"preprocessor", "parse", "assistant", "mkdir", "save", "returned"}
    /\ main_frame.result # "file_too_large" =>
        /\ main_frame.preprocessor_calls + main_frame.assistant_calls
              <= main_frame.config_retries + 2
        /\ main_frame.retries >= 0
        /\ ConsumedRetries =
              FailedCalls - (IF main_frame.result \in {"preprocessor_error", "assistant_error"}
                             THEN 1 ELSE 0)
        /\ main_frame.assistant_calls >= 1 =>
              main_frame.assistant_calls - 1
                <= main_frame.config_retries - (main_frame.preprocessor_calls - 1)

\* A run whose preprocessor call failed once and whose code-assistant call
\* then failed until the shared counter was used up: config.retries + 2
\* attempts in all, fewer than config.retries + 1 of them by the assistant.
C35_Witness ==
    /\ main_frame.result = "assistant_error"
    /\ main_frame.config_retries >= 1
    /\ main_frame.preprocessor_calls = 2
    /\ main_frame.preprocessor_calls + main_frame.assistant_calls
          = main_frame.config_retries + 2
    /\ main_frame.assistant_calls < main_frame.config_retries + 1

\* C5: with chunk_size > 0, after the merge of an updated file of n parts,
\* every slot whose id is supplied holds a supplied body of that id, and every
\* other slot holds the part the Chunker produces for the content on disk.
C5_OverlayKeepsUneditedParts ==
    (fn_pc = "merged" /\ chunk_size > 0) =>
        /\ ~merged.panic
        /\ Len(merged.parts) = Len(ShownParts)
        /\ \A i \in 1..Len(ShownParts) :
             IF SuppliedAt(i) = {}
             THEN merged.parts[i] = ShownParts[i].content
             ELSE \E k \in SuppliedAt(i) : merged.parts[i] = supplied[k].content
        /\ merged.new_content = Join(merged.parts, NL)

\* The 120-line file, chunk size 50, part 2 alone supplied: lines 51-100 are
\* replaced by the body, lines 1-50 and 101-120 are the original ones.
C5_Witness ==
    /\ fn_pc = "merged"
    /\ contents = ScenarioContent
    /\ chunk_size = ScenarioChunkSize
    /\ supplied = <<[part_id |-> 2, content |-> <<"X">>]>>
    /\ Len(merged.parts) = 3
    /\ Lines(merged.new_content) =
         SubSeq(Lines(contents), 1, 50) \o <<(<<"X">>)>>
           \o SubSeq(Lines(contents), 101, ScenarioLines)

\* The supplied parts whose id is an index of the re-chunked file.
InRangeSupplied ==
    SelectSeq(supplied,
              LAMBDA p : p.part_id \in 1..Len(rechunk(contents, chunk_size)))

\* C6: a supplied part with id 0 or an id above the part count changes no
\* slot (the slots are those of the merge without it), and the merge does not
\* panic.
C6_OutOfRangeIdsIgnored ==
    fn_pc = "merged" =>
        /\ ~merged.panic
        /\ Len(merged.parts) = Len(rechunk(contents, chunk_size))
        /\ \A i \in 1..Len(merged.parts) :
             merged.parts[i] =
               IF SuppliedAt(i) = {}
               THEN rechunk(contents, chunk_size)[i]
               ELSE supplied[CHOOSE k \in SuppliedAt(i) :
                               \A j \in SuppliedAt(i) : j <= k].content

C6_Witness ==
    /\ fn_pc = "merged"
    /\ Len(merged.parts) >= 2
    /\ \E k \in 1..Len(supplied) : supplied[k].part_id = 0
    /\ \E k \in 1..Len(supplied) : supplied[k].part_id > Len(merged.parts)

\* C37. When the supplied parts of an updated file carry the same in-range
\* part id more than once, the slot holds the body of the last of them in
\* document order; and the merged parts and content are those the merge
\* yields for the supplied sequence and the content on disk, whatever else
\* the run did.
C37_LastOccurrenceWins ==
    fn_pc = "merged" =>
        /\ \A j \in 1..Len(supplied), k \in 1..Len(supplied) :
              (/\ j < k
               /\ supplied[j].part_id = supplied[k].part_id
               /\ supplied[k].part_id \in 1..Len(rechunk(contents, chunk_size))
               /\ \A l \in (k + 1)..Len(supplied) :
                     supplied[l].part_id # supplied[k].part_id) =>
                  merged.parts[supplied[k].part_id] = supplied[k].content
        /\ merged = merge_file(contents, chunk_size, supplied)

\* The same in-range id supplied twice with two bodies: the slot holds the
\* second body, not the first.
C37_Witness ==
    /\ fn_pc = "merged"
    /\ Len(supplied) = 2
    /\ supplied[1].part_id = supplied[2].part_id
    /\ supplied[1].part_id \in 1..Len(merged.parts)
    /\ supplied[1].content # supplied[2].content
    /\ merged.parts[supplied[2].part_id] = supplied[2].content

\* C7 (as claimed): with chunk_size > 0 and no in-range part supplied, the
\* merged content is the original content.
C7_RoundTripIdentity ==
    (fn_pc = "merged" /\ chunk_size > 0 /\ InRangeSupplied = <<>>) =>
        merged.new_content = contents

\* C8: where the Chunker does not panic, it and the Applier's re-chunking
\* yield the same number of parts and the same content under every part id.
C8_ChunkerAndApplierAgree ==
    (fn_pc = "chunked" /\ ~chunked.panic) =>
        LET again == rechunk(contents, chunk_size)
        IN  /\ Len(chunked.parts) = Len(again)
            /\ \A i \in 1..Len(again) :
                 /\ chunked.parts[i].part_id = i
                 /\ chunked.parts[i].content = again[i]

C8_Witness ==
    /\ fn_pc = "chunked"
    /\ ~chunked.panic
    /\ Len(chunked.parts) >= 3
    /\ chunked.parts[1].content # chunked.parts[2].content

\* C9: with chunk_size > 0 the Chunker emits ids 1..n in order, every part
\* but the last holds chunk_size lines, the last holds 1..chunk_size lines of
\* the file in document order, and the announced count is n.
C9_ChunkerPartsWellFormed ==
    (fn_pc = "chunked" /\ chunk_size > 0) =>
        LET n == Len(chunked.parts)
            lines == Lines(contents)
        IN  /\ ~chunked.panic
            /\ chunked.num_parts = n
            /\ \A i \in 1..n :
                 /\ chunked.parts[i].part_id = i
                 /\ i < n => CountNL(chunked.parts[i].content) + 1 = chunk_size
                 /\ CountNL(chunked.parts[i].content) + 1 \in 1..chunk_size
                 /\ chunked.parts[i].content =
                      Join(SubSeq(lines, (i - 1) * chunk_size + 1,
                                  Min(i * chunk_size, Len(lines))), NL)
            /\ n = 0 <=> lines = <<>>
            /\ n > 0 => (n - 1) * chunk_size < Len(lines) /\ Len(lines) <= n * chunk_size

C9_Witness ==
    /\ fn_pc = "chunked"
    /\ chunk_size = 2
    /\ ~chunked.panic
    /\ chunked.num_parts = 2
    /\ CountNL(chunked.parts[2].content) = 0

\* C10 (as claimed): with chunk_size = 0 the Chunker and the Applier's
\* re-chunking each yield exactly one part, id 1, holding the whole file, and
\* neither panics.
C10_ZeroChunkSizeOnePart ==
    /\ (fn_pc = "chunked" /\ chunk_size = 0) =>
          /\ ~chunked.panic
          /\ Len(chunked.parts) = 1
          /\ chunked.parts[1].part_id = 1
          /\ chunked.parts[1].content = contents
    /\ (fn_pc = "merged" /\ chunk_size = 0) =>
          /\ ~merged.panic
          /\ rechunk(contents, chunk_size) = <<contents>>

====
